---- MODULE Spec2Model ----
(***************************************************************************)
(* The script engine of package script (Engine.Execute, parse, runCommand, *)
(* checkStatus, exponentialBackoff) as a state machine.                    *)
(*                                                                         *)
(* A script line is a sequence of one-character strings.  Durations are    *)
(* counted in units of 100ms.  The log writer is taken to accept every     *)
(* write.                                                                  *)
(***************************************************************************)
EXTENDS Integers, Sequences, FiniteSets, TLC

(***************************************************************************)
(* Bounds of the model.                                                    *)
(***************************************************************************)
\* number of lines the script reader yields before it reports io.EOF
MaxLines == 3
\* number of replay attempts of one retry episode that the model follows
MaxRetries == 2
\* length of an argument and number of arguments handed to quoteArgs
MaxArgLen == 2
MaxArgs == 2

(***************************************************************************)
(* Strings helpers (package strings).                                      *)
(***************************************************************************)
HasPrefix(str, c) == Len(str) >= 1 /\ str[1] = c

HasSuffix(str, c) == Len(str) >= 1 /\ str[Len(str)] = c

WhiteSpace == {" ", "\t", "\r", "\n"}

RECURSIVE TrimLeft(_)
TrimLeft(str) ==
  IF Len(str) > 0 /\ str[1] \in WhiteSpace THEN TrimLeft(Tail(str)) ELSE str

RECURSIVE TrimRight(_)
TrimRight(str) ==
  IF Len(str) > 0 /\ str[Len(str)] \in WhiteSpace
  THEN TrimRight(SubSeq(str, 1, Len(str) - 1))
  ELSE str

TrimSpace(str) == TrimRight(TrimLeft(str))

\* strings.Cut(tag, ":")
RECURSIVE CutAt(_, _)
CutAt(str, i) ==
  IF i > Len(str) THEN [prefix |-> str, suffix |-> <<>>, ok |-> FALSE]
  ELSE IF str[i] = ":"
       THEN [prefix |-> SubSeq(str, 1, i - 1),
             suffix |-> SubSeq(str, i + 1, Len(str)), ok |-> TRUE]
       ELSE CutAt(str, i + 1)

Cut(str) == CutAt(str, 1)

(***************************************************************************)
(* expectedStatus and the parsed command.                                  *)
(***************************************************************************)
success == <<>>

failure == <<"!">>

successOrFailure == <<"?">>

successRetryOnFailure == <<"*">>

failureRetryOnSuccess == <<"!", "*">>

argSepChars == {" ", "\t", "\r", "\n", "#"}

argFragment(str, q) == [s |-> str, quoted |-> q]

condition(w, t) == [want |-> w, tag |-> t]

\* &command{file: filename, line: lineno}; the file name is left out, the
\* model runs one script
command(lineno) ==
  [line |-> lineno, want |-> success, conds |-> <<>>, name |-> <<>>,
   rawArgs |-> <<>>, origArgs |-> <<>>, args |-> <<>>, background |-> FALSE]

NoErr == "nil"

NilCmd == [line |-> 0, want |-> success, conds |-> <<>>, name |-> <<>>,
           rawArgs |-> <<>>, origArgs |-> <<>>, args |-> <<>>,
           background |-> FALSE]

(***************************************************************************)
(* parse: flushArg closure.  Returns the error and the updated command.    *)
(***************************************************************************)
\* mutant: a second status marker replaces the first
flushArgLastWins(cmd, rawArg) ==
  IF Len(rawArg) = 0 THEN [err |-> NoErr, cmd |-> cmd]
  ELSE IF cmd.name = <<>> /\ Len(rawArg) = 1 /\ ~rawArg[1].quoted THEN
    LET arg == rawArg[1].s IN
    IF arg \in {failure, successOrFailure, successRetryOnFailure,
                failureRetryOnSuccess}
    THEN [err |-> NoErr, cmd |-> [cmd EXCEPT !.want = arg]]
    ELSE IF HasPrefix(arg, "[") /\ HasSuffix(arg, "]") THEN
      LET inner == TrimSpace(SubSeq(arg, 2, Len(arg) - 1))
          neg == HasPrefix(inner, "!")
          tag == IF neg THEN TrimSpace(Tail(inner)) ELSE inner
      IN IF tag = <<>>
         THEN [err |-> "empty condition", cmd |-> cmd]
         ELSE [err |-> NoErr,
               cmd |-> [cmd EXCEPT !.conds = Append(@, condition(~neg, tag))]]
    ELSE IF arg = <<>> THEN [err |-> "empty command", cmd |-> cmd]
    ELSE [err |-> NoErr, cmd |-> [cmd EXCEPT !.name = arg]]
  ELSE [err |-> NoErr, cmd |-> [cmd EXCEPT !.rawArgs = Append(@, rawArg)]]

flushArg(cmd, rawArg) ==
  IF Len(rawArg) = 0 THEN [err |-> NoErr, cmd |-> cmd]
  ELSE IF cmd.name = <<>> /\ Len(rawArg) = 1 /\ ~rawArg[1].quoted THEN
    LET arg == rawArg[1].s IN
    IF arg \in {failure, successOrFailure, successRetryOnFailure,
                failureRetryOnSuccess}
    THEN IF cmd.want # success
         THEN [err |-> "duplicated '!', '?', '*' or '!*' token", cmd |-> cmd]
         ELSE [err |-> NoErr, cmd |-> [cmd EXCEPT !.want = arg]]
    ELSE IF HasPrefix(arg, "[") /\ HasSuffix(arg, "]") THEN
      LET inner == TrimSpace(SubSeq(arg, 2, Len(arg) - 1))
          neg == HasPrefix(inner, "!")
          tag == IF neg THEN TrimSpace(Tail(inner)) ELSE inner
      IN IF tag = <<>>
         THEN [err |-> "empty condition", cmd |-> cmd]
         ELSE [err |-> NoErr,
               cmd |-> [cmd EXCEPT !.conds = Append(@, condition(~neg, tag))]]
    ELSE IF arg = <<>> THEN [err |-> "empty command", cmd |-> cmd]
    ELSE [err |-> NoErr, cmd |-> [cmd EXCEPT !.name = arg]]
  ELSE [err |-> NoErr, cmd |-> [cmd EXCEPT !.rawArgs = Append(@, rawArg)]]

(***************************************************************************)
(* parse: the scanning loop, i counted from 0 as in the source.            *)
(***************************************************************************)
\* mutant: a quote inside a quoted region always closes it
RECURSIVE parseLoopNoDoubling(_, _, _, _, _, _)
parseLoopNoDoubling(line, i, rawArg, start, quoted, cmd) ==
  IF ~quoted /\ (i >= Len(line) \/ line[i + 1] \in argSepChars) THEN
    LET rawArg1 == IF start >= 0
                   THEN Append(rawArg,
                               argFragment(SubSeq(line, start + 1, i), FALSE))
                   ELSE rawArg
        f == flushArg(cmd, rawArg1)
    IN IF f.err # NoErr THEN [err |-> f.err, cmd |-> NilCmd]
       ELSE IF i >= Len(line) \/ line[i + 1] = "#"
            THEN [err |-> NoErr, cmd |-> f.cmd]
            ELSE parseLoopNoDoubling(line, i + 1, <<>>, -1, quoted, f.cmd)
  ELSE IF i >= Len(line)
  THEN [err |-> "unterminated quoted argument", cmd |-> NilCmd]
  ELSE IF line[i + 1] = "'" THEN
    IF ~quoted
    THEN parseLoopNoDoubling(line, i + 1,
                   IF start >= 0
                   THEN Append(rawArg,
                               argFragment(SubSeq(line, start + 1, i), FALSE))
                   ELSE rawArg,
                   i + 1, TRUE, cmd)
    ELSE parseLoopNoDoubling(line, i + 1,
                   Append(rawArg, argFragment(SubSeq(line, start + 1, i), TRUE)),
                   i + 1, FALSE, cmd)
  ELSE parseLoopNoDoubling(line, i + 1, rawArg, IF start < 0 THEN i ELSE start,
                 quoted, cmd)

RECURSIVE parseLoop(_, _, _, _, _, _)
parseLoop(line, i, rawArg, start, quoted, cmd) ==
  IF ~quoted /\ (i >= Len(line) \/ line[i + 1] \in argSepChars) THEN
    LET rawArg1 == IF start >= 0
                   THEN Append(rawArg,
                               argFragment(SubSeq(line, start + 1, i), FALSE))
                   ELSE rawArg
        f == flushArg(cmd, rawArg1)
    IN IF f.err # NoErr THEN [err |-> f.err, cmd |-> NilCmd]
       ELSE IF i >= Len(line) \/ line[i + 1] = "#"
            THEN [err |-> NoErr, cmd |-> f.cmd]
            ELSE parseLoop(line, i + 1, <<>>, -1, quoted, f.cmd)
  ELSE IF i >= Len(line)
  THEN [err |-> "unterminated quoted argument", cmd |-> NilCmd]
  ELSE IF line[i + 1] = "'" THEN
    IF ~quoted
    THEN parseLoop(line, i + 1,
                   IF start >= 0
                   THEN Append(rawArg,
                               argFragment(SubSeq(line, start + 1, i), FALSE))
                   ELSE rawArg,
                   i + 1, TRUE, cmd)
    ELSE IF i + 1 < Len(line) /\ line[i + 2] = "'"
    THEN parseLoop(line, i + 2,
                   Append(rawArg, argFragment(SubSeq(line, start + 1, i), TRUE)),
                   i + 1, quoted, cmd)
    ELSE parseLoop(line, i + 1,
                   Append(rawArg, argFragment(SubSeq(line, start + 1, i), TRUE)),
                   i + 1, FALSE, cmd)
  ELSE parseLoop(line, i + 1, rawArg, IF start < 0 THEN i ELSE start,
                 quoted, cmd)

(***************************************************************************)
(* parse returns [cmd, isNil, err]: isNil stands for a nil *command.       *)
(***************************************************************************)
\* mutant: a quoted & at the end of the line also marks the background
parseAnyAmp(lineno, line) ==
  LET r == parseLoop(line, 0, <<>>, -1, FALSE, command(lineno))
      cmd == r.cmd
  IN IF r.err # NoErr THEN [cmd |-> NilCmd, isNil |-> TRUE, err |-> r.err]
     ELSE IF cmd.name = <<>> THEN
       IF cmd.want # success \/ Len(cmd.conds) > 0 \/ Len(cmd.rawArgs) > 0
          \/ cmd.background
       THEN [cmd |-> NilCmd, isNil |-> TRUE, err |-> "missing command"]
       ELSE [cmd |-> NilCmd, isNil |-> TRUE, err |-> NoErr]
     ELSE LET n == Len(cmd.rawArgs)
              last == cmd.rawArgs[n]
          IN IF n > 0 /\ Len(last) >= 1 /\ last[1].s = <<"&">>
             THEN [cmd |-> [cmd EXCEPT !.background = TRUE,
                                       !.rawArgs = SubSeq(@, 1, n - 1)],
                   isNil |-> FALSE, err |-> NoErr]
             ELSE [cmd |-> cmd, isNil |-> FALSE, err |-> NoErr]

parse(lineno, line) ==
  LET r == parseLoop(line, 0, <<>>, -1, FALSE, command(lineno))
      cmd == r.cmd
  IN IF r.err # NoErr THEN [cmd |-> NilCmd, isNil |-> TRUE, err |-> r.err]
     ELSE IF cmd.name = <<>> THEN
       IF cmd.want # success \/ Len(cmd.conds) > 0 \/ Len(cmd.rawArgs) > 0
          \/ cmd.background
       THEN [cmd |-> NilCmd, isNil |-> TRUE, err |-> "missing command"]
       ELSE [cmd |-> NilCmd, isNil |-> TRUE, err |-> NoErr]
     ELSE LET n == Len(cmd.rawArgs)
              last == cmd.rawArgs[n]
          IN IF n > 0 /\ Len(last) = 1 /\ ~last[1].quoted /\ last[1].s = <<"&">>
             THEN [cmd |-> [cmd EXCEPT !.background = TRUE,
                                       !.rawArgs = SubSeq(@, 1, n - 1)],
                   isNil |-> FALSE, err |-> NoErr]
             ELSE [cmd |-> cmd, isNil |-> FALSE, err |-> NoErr]

(***************************************************************************)
(* Error values.  kind is the innermost error; cmdErr tells whether the    *)
(* value is a *CommandError (made by cmdError) and line is the location it *)
(* carries; hbg tells whether the error was reported by the completion     *)
(* handle of a command run with a trailing &; bg is, for a waitError, the  *)
(* set of lines of the detached commands whose failures it wraps; wraps is *)
(* the set of sentinel errors that errors.Is finds in the value.           *)
(***************************************************************************)
MkErr(k) ==
  [kind |-> k, cmdErr |-> FALSE, line |-> 0, hbg |-> FALSE, bg |-> {},
   wraps |-> {}]

Nil == MkErr("nil")

ErrUnexpectedSuccess == MkErr("unexpected success")

ParseError == MkErr("parse error")

\* fmt.Errorf("%w: %w", ParseError, err) for the error text parse returned
wrapParseError(text) == [MkErr(text) EXCEPT !.wraps = {ParseError.kind}]

\* errors.As(err, &stopError{})
IsStop(err) == err.kind = "stop"

\* errors.As(err, &waitError{})
IsWaitError(err) == err.kind = "wait"

\* errors.Is(err, context.DeadlineExceeded) || errors.Is(err, context.Canceled)
IsCtxErr(err) == err.kind \in {"canceled", "deadline"}

\* cmdError wraps err in a *CommandError that carries the command's location
cmdError(cmd, err) == [err EXCEPT !.cmdErr = TRUE, !.line = cmd.line]

\* the lineErr closure of Execute
lineErr(lineno, err) == IF err.cmdErr THEN err ELSE [err EXCEPT !.line = lineno]

(***************************************************************************)
(* checkStatus                                                             *)
(***************************************************************************)
\* mutant: a nil outcome is accepted under every expectation
checkStatusNilOk(cmd, err) ==
  IF err = Nil THEN Nil
  ELSE IF IsStop(err) THEN cmdError(cmd, err)
  ELSE IF IsWaitError(err) THEN cmdError(cmd, err)
  ELSE IF cmd.want = success \/ cmd.want = successRetryOnFailure
  THEN cmdError(cmd, err)
  ELSE IF (cmd.want = failure \/ cmd.want = failureRetryOnSuccess)
          /\ IsCtxErr(err)
  THEN cmdError(cmd, err)
  ELSE Nil

\* mutant: an error under the Either expectation is propagated
checkStatusEitherFails(cmd, err) ==
  IF err = Nil THEN
    IF cmd.want = failure \/ cmd.want = failureRetryOnSuccess
    THEN cmdError(cmd, ErrUnexpectedSuccess)
    ELSE Nil
  ELSE IF IsStop(err) THEN cmdError(cmd, err)
  ELSE IF IsWaitError(err) THEN cmdError(cmd, err)
  ELSE IF cmd.want = success \/ cmd.want = successRetryOnFailure
          \/ cmd.want = successOrFailure
  THEN cmdError(cmd, err)
  ELSE IF (cmd.want = failure \/ cmd.want = failureRetryOnSuccess)
          /\ IsCtxErr(err)
  THEN cmdError(cmd, err)
  ELSE Nil

\* mutant: a cancellation counts as the failure a negated line expects
checkStatusCtxExpected(cmd, err) ==
  IF err = Nil THEN
    IF cmd.want = failure \/ cmd.want = failureRetryOnSuccess
    THEN cmdError(cmd, ErrUnexpectedSuccess)
    ELSE Nil
  ELSE IF IsStop(err) THEN cmdError(cmd, err)
  ELSE IF IsWaitError(err) THEN cmdError(cmd, err)
  ELSE IF cmd.want = success \/ cmd.want = successRetryOnFailure
  THEN cmdError(cmd, err)
  ELSE Nil

checkStatus(cmd, err) ==
  IF err = Nil THEN
    IF cmd.want = failure \/ cmd.want = failureRetryOnSuccess
    THEN cmdError(cmd, ErrUnexpectedSuccess)
    ELSE Nil
  ELSE IF IsStop(err) THEN cmdError(cmd, err)
  ELSE IF IsWaitError(err) THEN cmdError(cmd, err)
  ELSE IF cmd.want = success \/ cmd.want = successRetryOnFailure
  THEN cmdError(cmd, err)
  ELSE IF (cmd.want = failure \/ cmd.want = failureRetryOnSuccess)
          /\ IsCtxErr(err)
  THEN cmdError(cmd, err)
  ELSE Nil

(***************************************************************************)
(* exponentialBackoff.get: the wait it returns and the struct afterwards.  *)
(***************************************************************************)
Min(a, b) == IF a < b THEN a ELSE b

exponentialBackoff(m, i) == [max |-> m, interval |-> i]

get(eb) == [d |-> eb.interval,
            eb |-> [eb EXCEPT !.interval = Min(eb.interval * 2, eb.max)]]

defaultRetryInterval == 1

defaultMaxRetryInterval == 5

(***************************************************************************)
(* The State handed to Execute: the fields the engine and the commands of  *)
(* the model read and write.  log is 0 for an empty s.log and 1 otherwise; *)
(* discarded counts the times Execute emptied a s.log that held text       *)
(* without writing the text to the output log.                             *)
(***************************************************************************)
NewState ==
  [RetryCount |-> 0, retriesRequested |-> FALSE, stdout |-> "", stderr |-> "",
   log |-> 0, discarded |-> 0, background |-> <<>>, Flags |-> <<>>,
   env |-> <<"x">>]

Logf(s) == [s EXCEPT !.log = 1]

FlushLog(s) == [s EXCEPT !.log = 0]

\* State.ExpandEnv: $V is replaced by the binding of V (the one variable of
\* the model), a $ before anything else by nothing; in regexp mode the
\* value is inserted with its metacharacters quoted
QuoteMeta(str) == IF str = <<".">> THEN <<"\\", ".">> ELSE str

RECURSIVE ExpandEnv(_, _, _)
ExpandEnv(s, str, inRegexp) ==
  IF str = <<>> THEN <<>>
  ELSE IF str[1] = "$" THEN
    IF Len(str) >= 2 /\ str[2] = "V"
    THEN (IF inRegexp THEN QuoteMeta(s.env) ELSE s.env)
         \o ExpandEnv(s, SubSeq(str, 3, Len(str)), inRegexp)
    ELSE ExpandEnv(s, SubSeq(str, 3, Len(str)), inRegexp)
  ELSE <<str[1]>> \o ExpandEnv(s, Tail(str), inRegexp)

RECURSIVE expandFrags(_, _, _)
expandFrags(s, frags, isRegexp) ==
  IF frags = <<>> THEN <<>>
  ELSE (IF frags[1].quoted THEN frags[1].s
        ELSE ExpandEnv(s, frags[1].s, isRegexp))
       \o expandFrags(s, Tail(frags), isRegexp)

\* regexpArgs holds argument indices counted from 0
expandArgs(s, rawArgs, regexpArgs) ==
  [i \in 1..Len(rawArgs) |-> expandFrags(s, rawArgs[i], (i - 1) \in regexpArgs)]

(***************************************************************************)
(* quoteArgs                                                               *)
(***************************************************************************)
\* strings.ContainsAny(arg, "'"+argSepChars)
ContainsAny(str, chars) == \E i \in 1..Len(str) : str[i] \in chars

\* strings.ReplaceAll(arg, "'", "''")
RECURSIVE ReplaceAll(_)
ReplaceAll(str) ==
  IF str = <<>> THEN <<>>
  ELSE (IF str[1] = "'" THEN <<"'", "'">> ELSE <<str[1]>>)
       \o ReplaceAll(Tail(str))

RECURSIVE quoteArgsFrom(_, _)
quoteArgsFrom(args, i) ==
  IF i > Len(args) THEN <<>>
  ELSE (IF i > 1 THEN <<" ">> ELSE <<>>)
       \o (IF ContainsAny(args[i], {"'"} \cup argSepChars)
           THEN <<"'">> \o ReplaceAll(args[i]) \o <<"'">>
           ELSE args[i])
       \o quoteArgsFrom(args, i + 1)

quoteArgs(args) == quoteArgsFrom(args, 1)

\* an argument as the engine joins its fragments without expansion
RECURSIVE joinFrags(_)
joinFrags(frags) ==
  IF frags = <<>> THEN <<>> ELSE frags[1].s \o joinFrags(Tail(frags))

joinRawArgs(rawArgs) == [i \in 1..Len(rawArgs) |-> joinFrags(rawArgs[i])]

(***************************************************************************)
(* The Engine's registries (Engine.Cmds, Engine.Conds) as the model sets   *)
(* them up: each name is bound to a capability with the given usage.       *)
(*   c  a command that cannot run in the background and declares no flags  *)
(*   a  a command with Usage().Async                                       *)
(*   g  a command that declares the flag -v                                *)
(*   s  the stop command; w the wait command                               *)
(*   b  a command with Usage().Async whose Run starts a task that succeeds *)
(*   v  a command that binds the variable V to y                           *)
(*   c+ a command like c whose name holds a character that is an operator  *)
(*      of regular expressions                                             *)
(***************************************************************************)
\* usage.Flags: whether it is set, and the boolean flags it declares
NoFlags == [set |-> FALSE, declared |-> {}]

NilCap == [kind |-> "nil", Async |-> FALSE, Flags |-> NoFlags, RegexpArgs |-> {}]

Cmds(name) ==
  CASE name = <<"c">> -> [kind |-> "generic", Async |-> FALSE,
                          Flags |-> NoFlags, RegexpArgs |-> {}]
    [] name = <<"a">> -> [kind |-> "generic", Async |-> TRUE,
                          Flags |-> NoFlags, RegexpArgs |-> {}]
    [] name = <<"g">> -> [kind |-> "generic", Async |-> FALSE,
                          Flags |-> [set |-> TRUE, declared |-> {<<"-", "v">>}],
                          RegexpArgs |-> {0}]
    [] name = <<"s">> -> [kind |-> "stop", Async |-> FALSE,
                          Flags |-> NoFlags, RegexpArgs |-> {}]
    [] name = <<"w">> -> [kind |-> "wait", Async |-> FALSE,
                          Flags |-> NoFlags, RegexpArgs |-> {}]
    [] name = <<"b">> -> [kind |-> "task", Async |-> TRUE,
                          Flags |-> NoFlags, RegexpArgs |-> {}]
    [] name = <<"v">> -> [kind |-> "setenv", Async |-> FALSE,
                          Flags |-> NoFlags, RegexpArgs |-> {}]
    [] name = <<"c", "+">> -> [kind |-> "generic", Async |-> FALSE,
                               Flags |-> NoFlags, RegexpArgs |-> {}]
    [] OTHER -> NilCap

\* the keys of Engine.Cmds
CmdNames ==
  {<<"c">>, <<"a">>, <<"b">>, <<"g">>, <<"s">>, <<"w">>, <<"v">>,
   <<"c", "+">>}

(***************************************************************************)
(* Engine.ListCmds(w, true, "^"+name+"$"): the names whose usage is        *)
(* written to w, those of the registry the regular expression matches.     *)
(* MatchString(re, str) is re.MatchString(str) for the expression          *)
(* "^"+re+"$" over the operators the names of the model can hold: a        *)
(* character stands for itself, "." for any character, and "+" after an    *)
(* atom for one or more repetitions of the atom.                           *)
(***************************************************************************)
atomMatches(c, ch) == c = "." \/ c = ch

RECURSIVE MatchString(_, _)
MatchString(re, str) ==
  IF re = <<>> THEN str = <<>>
  ELSE IF Len(re) >= 2 /\ re[2] = "+"
  THEN \E k \in 1..Len(str) :
         /\ \A j \in 1..k : atomMatches(re[1], str[j])
         /\ MatchString(SubSeq(re, 3, Len(re)), SubSeq(str, k + 1, Len(str)))
  ELSE /\ str # <<>>
       /\ atomMatches(re[1], str[1])
       /\ MatchString(Tail(re), Tail(str))

ListCmds(regexMatch) == {name \in CmdNames : MatchString(regexMatch, name)}

\* out.String() after ListCmds: empty when no name was listed
usageText(listed) == IF listed = {} THEN "" ELSE "usage"

NilCond == [kind |-> "nil", Prefix |-> FALSE]

\*   t  always (true, nil)      f  always (false, nil)
\*   e  always an error         p  a prefix condition, true for suffix t
Conds(tag) ==
  CASE tag = <<"t">> -> [kind |-> "true", Prefix |-> FALSE]
    [] tag = <<"f">> -> [kind |-> "false", Prefix |-> FALSE]
    [] tag = <<"e">> -> [kind |-> "error", Prefix |-> FALSE]
    [] tag = <<"p">> -> [kind |-> "suffix", Prefix |-> TRUE]
    [] OTHER -> NilCond

\* Cond.Eval of the registered capabilities
Eval(impl, s, suffix) ==
  CASE impl.kind = "true" -> [active |-> TRUE, err |-> Nil]
    [] impl.kind = "false" -> [active |-> FALSE, err |-> Nil]
    [] impl.kind = "error" -> [active |-> FALSE, err |-> MkErr("err")]
    [] OTHER -> [active |-> suffix = <<"t">>, err |-> Nil]

(***************************************************************************)
(* Engine.conditionsActive.  evals lists the tags for which it called      *)
(* Eval, at is the index of the condition at which it returned.            *)
(***************************************************************************)
\* mutant: a condition is evaluated whether or not its use of a suffix
\* agrees with what the capability declares
RECURSIVE conditionsActiveAnySuffix(_, _, _, _)
conditionsActiveAnySuffix(s, conds, i, evals) ==
  IF i > Len(conds)
  THEN [ok |-> TRUE, err |-> Nil, evals |-> evals, at |-> i]
  ELSE
    LET cond == conds[i]
        cut == Cut(cond.tag)
        impl == IF cut.ok THEN Conds(cut.prefix) ELSE Conds(cond.tag)
    IN IF cut.ok /\ impl = NilCond
       THEN [ok |-> FALSE, err |-> MkErr("unknown condition prefix"),
             evals |-> evals, at |-> i]
       ELSE IF ~cut.ok /\ impl = NilCond
       THEN [ok |-> FALSE, err |-> MkErr("unknown condition"),
             evals |-> evals, at |-> i]
       ELSE LET r == Eval(impl, s, cut.suffix) IN
            IF r.err # Nil
            THEN [ok |-> FALSE, err |-> MkErr("evaluating condition"),
                  evals |-> Append(evals, cond.tag), at |-> i]
            ELSE IF r.active # cond.want
            THEN [ok |-> FALSE, err |-> Nil,
                  evals |-> Append(evals, cond.tag), at |-> i]
            ELSE conditionsActiveAnySuffix(s, conds, i + 1,
                                           Append(evals, cond.tag))

\* mutant: the conditions after one that is not met are looked up and
\* evaluated too, and their errors returned
RECURSIVE conditionsActiveAll(_, _, _, _)
conditionsActiveAll(s, conds, i, evals) ==
  IF i > Len(conds)
  THEN [ok |-> TRUE, err |-> Nil, evals |-> evals, at |-> i]
  ELSE
    LET cond == conds[i]
        cut == Cut(cond.tag)
        impl == IF cut.ok THEN Conds(cut.prefix) ELSE Conds(cond.tag)
    IN IF cut.ok /\ impl = NilCond
       THEN [ok |-> FALSE, err |-> MkErr("unknown condition prefix"),
             evals |-> evals, at |-> i]
       ELSE IF cut.ok /\ ~impl.Prefix
       THEN [ok |-> FALSE,
             err |-> MkErr("condition cannot be used with a suffix"),
             evals |-> evals, at |-> i]
       ELSE IF ~cut.ok /\ impl = NilCond
       THEN [ok |-> FALSE, err |-> MkErr("unknown condition"),
             evals |-> evals, at |-> i]
       ELSE IF ~cut.ok /\ impl.Prefix
       THEN [ok |-> FALSE, err |-> MkErr("condition requires a suffix"),
             evals |-> evals, at |-> i]
       ELSE LET r == Eval(impl, s, cut.suffix) IN
            IF r.err # Nil
            THEN [ok |-> FALSE, err |-> MkErr("evaluating condition"),
                  evals |-> Append(evals, cond.tag), at |-> i]
            ELSE IF r.active # cond.want
            THEN LET rest == conditionsActiveAll(s, conds, i + 1,
                                                 Append(evals, cond.tag))
                 IN IF rest.err # Nil THEN rest
                    ELSE [ok |-> FALSE, err |-> Nil, evals |-> rest.evals,
                          at |-> i]
            ELSE conditionsActiveAll(s, conds, i + 1,
                                     Append(evals, cond.tag))

RECURSIVE conditionsActiveFrom(_, _, _, _)
conditionsActiveFrom(s, conds, i, evals) ==
  IF i > Len(conds)
  THEN [ok |-> TRUE, err |-> Nil, evals |-> evals, at |-> i]
  ELSE
    LET cond == conds[i]
        cut == Cut(cond.tag)
        impl == IF cut.ok THEN Conds(cut.prefix) ELSE Conds(cond.tag)
    IN IF cut.ok /\ impl = NilCond
       THEN [ok |-> FALSE, err |-> MkErr("unknown condition prefix"),
             evals |-> evals, at |-> i]
       ELSE IF cut.ok /\ ~impl.Prefix
       THEN [ok |-> FALSE,
             err |-> MkErr("condition cannot be used with a suffix"),
             evals |-> evals, at |-> i]
       ELSE IF ~cut.ok /\ impl = NilCond
       THEN [ok |-> FALSE, err |-> MkErr("unknown condition"),
             evals |-> evals, at |-> i]
       ELSE IF ~cut.ok /\ impl.Prefix
       THEN [ok |-> FALSE, err |-> MkErr("condition requires a suffix"),
             evals |-> evals, at |-> i]
       ELSE LET r == Eval(impl, s, cut.suffix) IN
            IF r.err # Nil
            THEN [ok |-> FALSE, err |-> MkErr("evaluating condition"),
                  evals |-> Append(evals, cond.tag), at |-> i]
            ELSE IF r.active # cond.want
            THEN [ok |-> FALSE, err |-> Nil,
                  evals |-> Append(evals, cond.tag), at |-> i]
            ELSE conditionsActiveFrom(s, conds, i + 1,
                                      Append(evals, cond.tag))

conditionsActive(s, conds) == conditionsActiveFrom(s, conds, 1, <<>>)

(***************************************************************************)
(* fs.Parse(cmd.origArgs) of runCommand, for a flag set that declares the  *)
(* boolean flags in declared: -h and --help, unless declared, give ErrHelp,*)
(* any other undeclared flag an error; the arguments that are not flags    *)
(* are collected in args (fs.Args()) and the flags found in flags.         *)
(***************************************************************************)
HelpFlags == {<<"-", "h">>, <<"-", "-", "h", "e", "l", "p">>}

RECURSIVE flagParseFrom(_, _, _, _, _)
flagParseFrom(declared, origArgs, i, args, flags) ==
  IF i > Len(origArgs) THEN [err |-> "nil", args |-> args, flags |-> flags]
  ELSE LET a == origArgs[i] IN
    IF a = <<"-", "-">>
    THEN [err |-> "nil", args |-> args \o SubSeq(origArgs, i + 1, Len(origArgs)),
          flags |-> flags]
    ELSE IF Len(a) >= 2 /\ a[1] = "-" THEN
      IF a \in declared
      THEN flagParseFrom(declared, origArgs, i + 1, args, Append(flags, a))
      ELSE IF a \in HelpFlags
      THEN [err |-> "help", args |-> args, flags |-> flags]
      ELSE [err |-> "unknown flag", args |-> args, flags |-> flags]
    ELSE flagParseFrom(declared, origArgs, i + 1, Append(args, a), flags)

flagParse(usageFlags, origArgs) ==
  flagParseFrom(IF usageFlags.set THEN usageFlags.declared ELSE {},
                origArgs, 1, <<>>, <<>>)

(***************************************************************************)
(* Cmd.Run of the registered capabilities: the set of results              *)
(* [wait, runErr, s] a call can have.  A WaitFunc is modelled by what it   *)
(* will return when it is called: [stdout, stderr, err].                   *)
(***************************************************************************)
NilWait == [stdout |-> "", stderr |-> "", err |-> "none"]

WaitFuncs ==
  {[stdout |-> "o", stderr |-> "", err |-> "nil"],
   [stdout |-> "", stderr |-> "e", err |-> "err"]}

RunErrs == {Nil, MkErr("err"), MkErr("canceled")}

\* the error a WaitFunc returns to the caller that runs it for cmd
waitErrOf(cmd, wait) ==
  IF wait.err = "nil" THEN Nil
  ELSE [MkErr(wait.err) EXCEPT !.hbg = cmd.background]

\* a capability bound to an ordinary command: any result, those that break
\* the WaitFunc-or-error protocol included
RunGeneric(s) ==
  {[wait |-> NilWait, runErr |-> e, s |-> s] : e \in RunErrs}
  \cup {[wait |-> w, runErr |-> Nil, s |-> s] : w \in WaitFuncs}
  \cup {[wait |-> [stdout |-> "o", stderr |-> "", err |-> "nil"],
         runErr |-> MkErr("err"), s |-> s]}

\* the stop command: Run returns the stop signal
RunStop(s) == {[wait |-> NilWait, runErr |-> MkErr("stop"), s |-> s]}

\* the wait command: Run resolves every registered completion handle in
\* order, empties the registry, and returns a waitError wrapping the
\* failures of the tasks that failed
RunWait(s) ==
  LET failed == {i \in DOMAIN s.background : s.background[i].wait.err # "nil"}
      outs == {i \in DOMAIN s.background : s.background[i].wait.stdout # ""}
      errs == {i \in DOMAIN s.background : s.background[i].wait.stderr # ""}
      s1 == [s EXCEPT !.background = <<>>,
                      !.stdout = IF outs = {} THEN "" ELSE "o",
                      !.stderr = IF errs = {} THEN "" ELSE "e",
                      !.log = IF s.background = <<>> THEN @ ELSE 1]
  IN {[wait |-> NilWait,
       runErr |-> IF failed = {} THEN Nil
                  ELSE [MkErr("wait") EXCEPT
                          !.bg = {s.background[i].command : i \in failed}],
       s |-> s1]}

\* a command that starts a task and returns its WaitFunc
RunTask(s) ==
  {[wait |-> [stdout |-> "o", stderr |-> "", err |-> "nil"], runErr |-> Nil,
    s |-> s]}

\* a command that sets the variable of the State
RunSetenv(s) ==
  {[wait |-> NilWait, runErr |-> Nil, s |-> [s EXCEPT !.env = <<"y">>]]}

Run(impl, s, args) ==
  CASE impl.kind = "stop" -> RunStop(s)
    [] impl.kind = "wait" -> RunWait(s)
    [] impl.kind = "task" -> RunTask(s)
    [] impl.kind = "setenv" -> RunSetenv(s)
    [] OTHER -> RunGeneric(s)

(***************************************************************************)
(* Engine.runCommand: the set of results [s, cmd, err, ran, run, raw] one  *)
(* call can have.  s and cmd are the State and the command afterwards (cmd *)
(* is shared with sectionCmds), err is the error returned; ran tells       *)
(* whether impl.Run was called, run is what it returned, and raw is the    *)
(* outcome handed to checkStatus (NoOutcome when checkStatus was not       *)
(* called).                                                                *)
(***************************************************************************)
NoOutcome == MkErr("none")

\* mutant: the registry entry does not keep the WaitFunc
backgroundCmdNoHandle(cmd, wait) == [command |-> cmd.line, wait |-> NilWait]

backgroundCmd(cmd, wait) == [command |-> cmd.line, wait |-> wait]

\* what Run returned, as the history of a dispatch records it
NoRun == [wait |-> NilWait, runErr |-> NoOutcome]

RunOf(r) == [wait |-> r.wait, runErr |-> r.runErr]

\* mutant: the result of Run is not checked against the protocol
protocolUnchecked(impl, r) == IF r.wait = NilWait THEN "result" ELSE "handle"

\* the shape of the result of Run: no WaitFunc and no error from an Async
\* command, a result without a WaitFunc, a WaitFunc with an error, or a
\* WaitFunc alone
protocol(impl, r) ==
  IF r.wait = NilWait
  THEN IF impl.Async /\ r.runErr = Nil THEN "neither" ELSE "result"
  ELSE IF r.runErr # Nil THEN "both"
  ELSE "handle"

\* mutant: the WaitFunc of a detached command is run at once
afterRunEager(cmd, impl, r) ==
  IF protocol(impl, r) = "neither"
  THEN [s |-> r.s, cmd |-> cmd,
        err |-> cmdError(cmd, MkErr("internal error: async command returned a nil WaitFunc")),
        ran |-> TRUE, run |-> RunOf(r), raw |-> NoOutcome]
  ELSE IF protocol(impl, r) = "result"
  THEN [s |-> r.s, cmd |-> cmd, err |-> checkStatus(cmd, r.runErr),
        ran |-> TRUE, run |-> RunOf(r), raw |-> r.runErr]
  ELSE IF protocol(impl, r) = "both"
  THEN [s |-> r.s, cmd |-> cmd,
        err |-> cmdError(cmd, MkErr("internal error: command returned both an error and a WaitFunc")),
        ran |-> TRUE, run |-> RunOf(r), raw |-> NoOutcome]
  ELSE LET waitErr == waitErrOf(cmd, r.wait)
           cmdErr == checkStatus(cmd, waitErr)
           s1 == [r.s EXCEPT !.stdout = r.wait.stdout,
                             !.stderr = r.wait.stderr,
                             !.log = IF r.wait.stdout # "" \/ r.wait.stderr # ""
                                        \/ (cmdErr = Nil /\ waitErr # Nil)
                                     THEN 1 ELSE @]
       IN [s |-> s1, cmd |-> cmd, err |-> cmdErr, ran |-> TRUE,
           run |-> RunOf(r), raw |-> waitErr]

\* mutant: the start of a detached command is reconciled against the
\* expected status of the line like a command that succeeded
afterRunReconciled(cmd, impl, r) ==
  IF protocol(impl, r) = "neither"
  THEN [s |-> r.s, cmd |-> cmd,
        err |-> cmdError(cmd, MkErr("internal error: async command returned a nil WaitFunc")),
        ran |-> TRUE, run |-> RunOf(r), raw |-> NoOutcome]
  ELSE IF protocol(impl, r) = "result"
  THEN [s |-> r.s, cmd |-> cmd, err |-> checkStatus(cmd, r.runErr),
        ran |-> TRUE, run |-> RunOf(r), raw |-> r.runErr]
  ELSE IF protocol(impl, r) = "both"
  THEN [s |-> r.s, cmd |-> cmd,
        err |-> cmdError(cmd, MkErr("internal error: command returned both an error and a WaitFunc")),
        ran |-> TRUE, run |-> RunOf(r), raw |-> NoOutcome]
  ELSE IF cmd.background
  THEN [s |-> [r.s EXCEPT !.background = Append(@, backgroundCmd(cmd, r.wait)),
                          !.stdout = "", !.stderr = ""],
        cmd |-> cmd, err |-> checkStatus(cmd, Nil), ran |-> TRUE,
        run |-> RunOf(r), raw |-> NoOutcome]
  ELSE LET waitErr == waitErrOf(cmd, r.wait)
           cmdErr == checkStatus(cmd, waitErr)
           s1 == [r.s EXCEPT !.stdout = r.wait.stdout,
                             !.stderr = r.wait.stderr,
                             !.log = IF r.wait.stdout # "" \/ r.wait.stderr # ""
                                        \/ (cmdErr = Nil /\ waitErr # Nil)
                                     THEN 1 ELSE @]
       IN [s |-> s1, cmd |-> cmd, err |-> cmdErr, ran |-> TRUE,
           run |-> RunOf(r), raw |-> waitErr]

\* mutant: a result without a WaitFunc clears the captured output
afterRunCleared(cmd, impl, r) ==
  IF protocol(impl, r) = "neither"
  THEN [s |-> r.s, cmd |-> cmd,
        err |-> cmdError(cmd, MkErr("internal error: async command returned a nil WaitFunc")),
        ran |-> TRUE, run |-> RunOf(r), raw |-> NoOutcome]
  ELSE IF protocol(impl, r) = "result"
  THEN [s |-> [r.s EXCEPT !.stdout = "", !.stderr = ""], cmd |-> cmd,
        err |-> checkStatus(cmd, r.runErr),
        ran |-> TRUE, run |-> RunOf(r), raw |-> r.runErr]
  ELSE IF protocol(impl, r) = "both"
  THEN [s |-> r.s, cmd |-> cmd,
        err |-> cmdError(cmd, MkErr("internal error: command returned both an error and a WaitFunc")),
        ran |-> TRUE, run |-> RunOf(r), raw |-> NoOutcome]
  ELSE IF cmd.background
  THEN [s |-> [r.s EXCEPT !.background = Append(@, backgroundCmd(cmd, r.wait)),
                          !.stdout = "", !.stderr = ""],
        cmd |-> cmd, err |-> Nil, ran |-> TRUE, run |-> RunOf(r),
        raw |-> NoOutcome]
  ELSE LET waitErr == waitErrOf(cmd, r.wait)
           cmdErr == checkStatus(cmd, waitErr)
           s1 == [r.s EXCEPT !.stdout = r.wait.stdout,
                             !.stderr = r.wait.stderr,
                             !.log = IF r.wait.stdout # "" \/ r.wait.stderr # ""
                                        \/ (cmdErr = Nil /\ waitErr # Nil)
                                     THEN 1 ELSE @]
       IN [s |-> s1, cmd |-> cmd, err |-> cmdErr, ran |-> TRUE,
           run |-> RunOf(r), raw |-> waitErr]

afterRun(cmd, impl, r) ==
  IF protocol(impl, r) = "neither"
  THEN [s |-> r.s, cmd |-> cmd,
        err |-> cmdError(cmd, MkErr("internal error: async command returned a nil WaitFunc")),
        ran |-> TRUE, run |-> RunOf(r), raw |-> NoOutcome]
  ELSE IF protocol(impl, r) = "result"
  THEN [s |-> r.s, cmd |-> cmd, err |-> checkStatus(cmd, r.runErr),
        ran |-> TRUE, run |-> RunOf(r), raw |-> r.runErr]
  ELSE IF protocol(impl, r) = "both"
  THEN [s |-> r.s, cmd |-> cmd,
        err |-> cmdError(cmd, MkErr("internal error: command returned both an error and a WaitFunc")),
        ran |-> TRUE, run |-> RunOf(r), raw |-> NoOutcome]
  ELSE IF cmd.background
  THEN [s |-> [r.s EXCEPT !.background = Append(@, backgroundCmd(cmd, r.wait)),
                          !.stdout = "", !.stderr = ""],
        cmd |-> cmd, err |-> Nil, ran |-> TRUE, run |-> RunOf(r),
        raw |-> NoOutcome]
  ELSE LET waitErr == waitErrOf(cmd, r.wait)
           cmdErr == checkStatus(cmd, waitErr)
           s1 == [r.s EXCEPT !.stdout = r.wait.stdout,
                             !.stderr = r.wait.stderr,
                             !.log = IF r.wait.stdout # "" \/ r.wait.stderr # ""
                                        \/ (cmdErr = Nil /\ waitErr # Nil)
                                     THEN 1 ELSE @]
       IN [s |-> s1, cmd |-> cmd, err |-> cmdErr, ran |-> TRUE,
           run |-> RunOf(r), raw |-> waitErr]

\* mutant: a command is run in the background whatever its usage says
runCommandAnyBackground(s, cmd, impl) ==
  IF impl = NilCap
  THEN {[s |-> s, cmd |-> cmd, err |-> cmdError(cmd, MkErr("unknown command")),
         ran |-> FALSE, run |-> NoRun, raw |-> NoOutcome]}
  ELSE LET fp == flagParse(impl.Flags, cmd.origArgs) IN
    IF fp.err = "help"
    THEN LET out == usageText(ListCmds(cmd.name))
             s1 == [s EXCEPT !.stdout = out]
         IN {[s |-> IF out # "" THEN Logf(s1) ELSE s1, cmd |-> cmd,
              err |-> Nil, ran |-> FALSE, run |-> NoRun, raw |-> NoOutcome]}
    ELSE IF fp.err # "nil" /\ impl.Flags # NoFlags
    THEN {[s |-> s, cmd |-> cmd, err |-> cmdError(cmd, MkErr(fp.err)),
           ran |-> FALSE, run |-> NoRun, raw |-> NoOutcome]}
    ELSE LET cmd1 == IF fp.err = "nil" THEN [cmd EXCEPT !.args = fp.args]
                     ELSE cmd
             s1 == IF fp.err = "nil" THEN [s EXCEPT !.Flags = fp.flags] ELSE s
         IN {afterRun(cmd1, impl, r) : r \in Run(impl, s1, cmd1.args)}

runCommand(s, cmd, impl) ==
  IF impl = NilCap
  THEN {[s |-> s, cmd |-> cmd, err |-> cmdError(cmd, MkErr("unknown command")),
         ran |-> FALSE, run |-> NoRun, raw |-> NoOutcome]}
  ELSE IF cmd.background /\ ~impl.Async
  THEN {[s |-> s, cmd |-> cmd,
         err |-> cmdError(cmd, MkErr("command cannot be run in background")),
         ran |-> FALSE, run |-> NoRun, raw |-> NoOutcome]}
  ELSE LET fp == flagParse(impl.Flags, cmd.origArgs) IN
    IF fp.err = "help"
    THEN LET out == usageText(ListCmds(cmd.name))
             s1 == [s EXCEPT !.stdout = out]
         IN {[s |-> IF out # "" THEN Logf(s1) ELSE s1, cmd |-> cmd,
              err |-> Nil, ran |-> FALSE, run |-> NoRun, raw |-> NoOutcome]}
    ELSE IF fp.err # "nil" /\ impl.Flags # NoFlags
    THEN {[s |-> s, cmd |-> cmd, err |-> cmdError(cmd, MkErr(fp.err)),
           ran |-> FALSE, run |-> NoRun, raw |-> NoOutcome]}
    ELSE LET cmd1 == IF fp.err = "nil" THEN [cmd EXCEPT !.args = fp.args]
                     ELSE cmd
             s1 == IF fp.err = "nil" THEN [s EXCEPT !.Flags = fp.flags] ELSE s
         IN {afterRun(cmd1, impl, r) : r \in Run(impl, s1, cmd1.args)}

(***************************************************************************)
(* Engine.Execute.                                                         *)
(*                                                                         *)
(* pc is the position of Execute: "loop" at the top of the line loop,      *)
(* "line" with a parsed command in cmd before its guards are evaluated,    *)
(* "backoff" at the top of the retry loop, "wait" in the select of the     *)
(* retry loop, "replay" inside the loop over sectionCmds, "done" after the *)
(* return.  e is the Engine's configuration, ctxErr is s.ctx.Err(), line   *)
(* the text of the line read last, result the error returned.              *)
(*                                                                         *)
(* History variables: last describes the latest call of runCommand,        *)
(* dispatched lists the lines of all calls of runCommand in order, attempt *)
(* those of the running replay attempt with whether the call returned an   *)
(* error, skipped holds the lines whose guards were not met.  qargs is the *)
(* argument list handed to quoteArgs, for the steps that apply quoteArgs   *)
(* and parse to a line outside Execute; pc is then "quoted" and "parsed".  *)
(***************************************************************************)
VARIABLES pc, e, ctxErr, lineno, line, sectionStart, sectionCmds, s, cmd,
          backoff, retryDuration, err, ri, result, last, dispatched, attempt,
          skipped, qargs

vars == <<pc, e, ctxErr, lineno, line, sectionStart, sectionCmds, s, cmd,
          backoff, retryDuration, err, ri, result, last, dispatched, attempt,
          skipped, qargs>>

NoDispatch ==
  [line |-> 0, want |-> success, name |-> <<>>, origArgs |-> <<>>,
   args |-> <<>>, background |-> FALSE, pass |-> "none", retry |-> 0, ran |-> FALSE, run |-> NoRun,
   raw |-> NoOutcome, err |-> Nil]

\* the record of a call of runCommand for c that had the result r
Dispatch(c, pass, retry, r) ==
  [line |-> c.line, want |-> c.want, name |-> c.name,
   origArgs |-> c.origArgs, args |-> r.cmd.args,
   background |-> c.background, pass |-> pass, retry |-> retry,
   ran |-> r.ran, run |-> r.run, raw |-> r.raw, err |-> r.err]

NoBackoff == exponentialBackoff(0, 0)

InitWith(engines) ==
  /\ pc = "loop"
  /\ e \in engines
  /\ ctxErr = Nil
  /\ lineno = 0
  /\ line = <<>>
  /\ sectionStart = FALSE
  /\ sectionCmds = <<>>
  /\ s = NewState
  /\ cmd = NilCmd
  /\ backoff = NoBackoff
  /\ retryDuration = 0
  /\ err = Nil
  /\ ri = 0
  /\ result = Nil
  /\ last = NoDispatch
  /\ dispatched = <<>>
  /\ attempt = <<>>
  /\ skipped = {}
  /\ qargs = <<>>

(***************************************************************************)
(* The endSection closure, called with sectionStart as start: the State    *)
(* afterwards (sectionStart and sectionCmds are cleared by the callers     *)
(* below).  The writes of the newline and of the elapsed time go to the    *)
(* output log, which takes every write, and leave the State alone.         *)
(***************************************************************************)
\* s.log.Reset() of the closure
Reset(st) == [st EXCEPT !.log = 0, !.discarded = @ + 1]

\* mutant: the end of a section also empties the registry of background
\* tasks
endSectionReap(st, start, ok) ==
  [(IF ~start THEN (IF st.log > 0 THEN FlushLog(st) ELSE st)
    ELSE IF st.log = 0 THEN st
    ELSE IF ~ok \/ ~e.Quiet THEN FlushLog(st)
    ELSE Reset(st)) EXCEPT !.background = <<>>]

\* mutant: in quiet mode the log of a section is dropped whether or not the
\* section succeeded
endSectionQuietAlways(st, start, ok) ==
  IF ~start THEN (IF st.log > 0 THEN FlushLog(st) ELSE st)
  ELSE IF st.log = 0 THEN st
  ELSE IF ~e.Quiet THEN FlushLog(st)
  ELSE Reset(st)

endSection(st, start, ok) ==
  IF ~start THEN (IF st.log > 0 THEN FlushLog(st) ELSE st)
  ELSE IF st.log = 0 THEN st
  ELSE IF ~ok \/ ~e.Quiet THEN FlushLog(st)
  ELSE Reset(st)

\* a return of Execute with error r, with sectionStart being start: the
\* deferred endSection(false) runs
Return(st, start, r) ==
  /\ pc' = "done"
  /\ result' = r
  /\ s' = endSection(st, start, FALSE)
  /\ sectionStart' = FALSE
  /\ sectionCmds' = <<>>

\* the retry interval and its maximum, a zero value replaced by the default
retryInterval(eng) ==
  IF eng.RetryInterval = 0 THEN defaultRetryInterval ELSE eng.RetryInterval

maxRetryInterval(eng) ==
  IF eng.MaxRetryInterval = 0 THEN defaultMaxRetryInterval
  ELSE eng.MaxRetryInterval

\* mutant: the context is not checked at the top of the loop
ctxDoneNever(ctx) == FALSE

\* the check of s.ctx.Err() at the top of the line loop
ctxDone(ctx) == ctx # Nil

\* mutant: an error of a line without a retry prefix does not end the script
dispositionSwallow(st, er) ==
  IF er = Nil THEN "continue"
  ELSE IF st.retriesRequested THEN "retry"
  ELSE IF IsStop(er) THEN "stop"
  ELSE "continue"

\* mutant: the stop signal is returned like any other error
dispositionStopFails(st, er) ==
  IF er = Nil THEN "continue"
  ELSE IF st.retriesRequested THEN "retry"
  ELSE "fail"

\* what Execute does with the error of the first run of a line: go on to
\* the next line, enter the retry loop, end the script at a stop, or fail
disposition(st, er) ==
  IF er = Nil THEN "continue"
  ELSE IF st.retriesRequested THEN "retry"
  ELSE IF IsStop(er) THEN "stop"
  ELSE "fail"

\* mutant: a replay attempt runs the retried line alone
replayStartLast(cmds) == Len(cmds)

\* the index in sectionCmds at which a replay attempt starts
replayStart(cmds) == 1

\* mutant: a line that does not parse is passed over like a blank line
parseOutcomeSkipBad(p) == IF p.isNil THEN "blank" ELSE "line"

\* mutant: a nil command is always taken for a failure of parse
parseOutcomeBlankFails(p) == IF p.isNil THEN "fail" ELSE "line"

\* what Execute does with the result of parse: pass over a blank line,
\* return the parse error, or go on with the parsed command
parseOutcome(p) ==
  IF p.isNil /\ p.err = NoErr THEN "blank"
  ELSE IF p.err # NoErr THEN "fail"
  ELSE "line"

(***************************************************************************)
(* Top of the line loop: the context check, reading a line (the reader     *)
(* yields any line of lines or io.EOF), a section comment, parse.          *)
(***************************************************************************)
LoopTop(lines) ==
  /\ pc = "loop"
  /\ UNCHANGED <<e, ctxErr, backoff, retryDuration, err, ri, last,
                 dispatched, attempt, skipped, qargs>>
  /\ IF ctxDone(ctxErr)
     THEN /\ Return(s, sectionStart, lineErr(lineno, ctxErr))
          /\ UNCHANGED <<lineno, line, cmd>>
     ELSE \E eof \in BOOLEAN :
       IF eof \/ lineno >= MaxLines
       THEN /\ Return(endSection(s, sectionStart, TRUE), FALSE, Nil)
            /\ UNCHANGED <<lineno, line, cmd>>
       ELSE \E text \in lines :
         /\ lineno' = lineno + 1
         /\ line' = text
         /\ IF HasPrefix(text, "#")
            THEN /\ s' = endSection(s, sectionStart, TRUE)
                 /\ sectionCmds' = <<>>
                 /\ sectionStart' = TRUE
                 /\ UNCHANGED <<pc, result, cmd>>
            ELSE LET p == parse(lineno + 1, text) IN
              IF parseOutcome(p) = "blank"
              THEN UNCHANGED <<pc, result, s, sectionStart, sectionCmds, cmd>>
              ELSE IF parseOutcome(p) = "fail"
              THEN /\ Return(Logf(s), sectionStart,
                             lineErr(lineno + 1, wrapParseError(p.err)))
                   /\ UNCHANGED cmd
              ELSE /\ sectionCmds' = Append(sectionCmds, p.cmd)
                   /\ s' = Logf(s)
                   /\ cmd' = p.cmd
                   /\ pc' = "line"
                   /\ UNCHANGED <<result, sectionStart>>

(***************************************************************************)
(* The rest of the loop body for the parsed command: the guards, the       *)
(* expansion of the arguments, runCommand, and what follows its error.     *)
(***************************************************************************)
\* mutant: an error of the guards is reconciled against the expected
\* status, and skipped over when the line expects or tolerates a failure
guardOutcomeReconciled(c, want) ==
  IF c.err # Nil
  THEN IF want \in {failure, successOrFailure} THEN "skip" ELSE "fail"
  ELSE IF ~c.ok THEN "skip"
  ELSE "run"

\* what Execute does with the result c of conditionsActive for a line with
\* expected status want: return the error, skip the line, or run it
guardOutcome(c, want) ==
  IF c.err # Nil THEN "fail"
  ELSE IF ~c.ok THEN "skip"
  ELSE "run"

\* what follows the first run of a line, whose call of runCommand had the
\* result r: the next line, the retry loop, the return at a stop or with
\* the error
AfterRunCommand(r) ==
  LET d == disposition(r.s, r.err) IN
  IF d = "continue"
  THEN /\ s' = r.s
       /\ sectionCmds' = [sectionCmds EXCEPT ![Len(sectionCmds)] = r.cmd]
       /\ pc' = "loop"
       /\ UNCHANGED <<backoff, err, result, sectionStart>>
  ELSE IF d = "retry"
  THEN /\ sectionStart' = FALSE
       /\ s' = FlushLog(r.s)
       /\ sectionCmds' = [sectionCmds EXCEPT ![Len(sectionCmds)] = r.cmd]
       /\ backoff' = exponentialBackoff(maxRetryInterval(e), retryInterval(e))
       /\ err' = r.err
       /\ pc' = "backoff"
       /\ UNCHANGED result
  ELSE IF d = "stop"
  THEN /\ Return(Logf(endSection(r.s, sectionStart, TRUE)), FALSE, Nil)
       /\ UNCHANGED <<backoff, err>>
  ELSE /\ Return(r.s, sectionStart, lineErr(lineno, r.err))
       /\ UNCHANGED <<backoff, err>>

RunLine ==
  /\ pc = "line"
  /\ UNCHANGED <<e, ctxErr, lineno, line, ri, attempt, retryDuration, qargs>>
  /\ LET c == conditionsActive(s, cmd.conds) IN
     IF guardOutcome(c, cmd.want) = "fail"
     THEN /\ Return(s, sectionStart, lineErr(lineno, c.err))
          /\ UNCHANGED <<cmd, backoff, err, last, dispatched, skipped>>
     ELSE IF guardOutcome(c, cmd.want) = "skip"
     THEN /\ s' = Logf(s)
          /\ skipped' = skipped \cup {cmd.line}
          /\ pc' = "loop"
          /\ UNCHANGED <<cmd, backoff, err, last, dispatched, result,
                         sectionStart, sectionCmds>>
     ELSE
       LET impl == Cmds(cmd.name)
           regexpArgs == IF impl # NilCap THEN impl.RegexpArgs ELSE {}
           origArgs == expandArgs(s, cmd.rawArgs, regexpArgs)
           cmd1 == [cmd EXCEPT !.origArgs = origArgs, !.args = origArgs]
           s1 == [s EXCEPT !.RetryCount = 0,
                           !.retriesRequested =
                              (cmd.want = successRetryOnFailure
                               \/ cmd.want = failureRetryOnSuccess)]
       IN \E r \in runCommand(s1, cmd1, impl) :
         /\ last' = Dispatch(cmd1, "first", s1.RetryCount, r)
         /\ dispatched' = Append(dispatched, cmd1.line)
         /\ cmd' = r.cmd
         /\ UNCHANGED skipped
         /\ AfterRunCommand(r)

(***************************************************************************)
(* The first run of a line in two steps, for a command that is not         *)
(* detached and whose Run returns a WaitFunc alone: CallRun is the loop    *)
(* body up to the return of impl.Run, with pc = "resolve" afterwards;      *)
(* ResolveHandle is the call of the WaitFunc and the rest of the loop      *)
(* body.  RunLineRest is the loop body for every other line.               *)
(***************************************************************************)
\* the dispatch described by d got a WaitFunc alone from Run for a command
\* that is not detached
HandleReturned(d) ==
  d.ran /\ d.run.wait # NilWait /\ d.run.runErr = Nil /\ ~d.background

\* mutant: Execute goes on with the next line while the WaitFunc has not
\* been called
stepAfterHandleLoop(c) == "loop"

\* where runCommand goes with a WaitFunc alone: back to the caller for a
\* detached command, to the call of the WaitFunc for any other
stepAfterHandle(c) == IF c.background THEN "loop" ELSE "resolve"

CallRun ==
  /\ pc = "line"
  /\ UNCHANGED <<e, ctxErr, lineno, line, ri, attempt, retryDuration, qargs,
                 backoff, err, result, sectionStart, skipped>>
  /\ guardOutcome(conditionsActive(s, cmd.conds), cmd.want) = "run"
  /\ LET impl == Cmds(cmd.name)
         regexpArgs == IF impl # NilCap THEN impl.RegexpArgs ELSE {}
         origArgs == expandArgs(s, cmd.rawArgs, regexpArgs)
         fp == flagParse(impl.Flags, origArgs)
         cmd1 == [cmd EXCEPT !.origArgs = origArgs,
                             !.args = IF fp.err = "nil" THEN fp.args
                                      ELSE origArgs]
         s1 == [s EXCEPT !.RetryCount = 0,
                         !.retriesRequested =
                            (cmd.want = successRetryOnFailure
                             \/ cmd.want = failureRetryOnSuccess),
                         !.Flags = IF fp.err = "nil" THEN fp.flags ELSE @]
     IN /\ impl # NilCap
        /\ ~cmd.background
        /\ fp.err # "help"
        /\ ~(fp.err # "nil" /\ impl.Flags # NoFlags)
        /\ \E r \in Run(impl, s1, cmd1.args) :
             /\ protocol(impl, r) = "handle"
             /\ s' = r.s
             /\ cmd' = cmd1
             /\ sectionCmds' = [sectionCmds EXCEPT ![Len(sectionCmds)] = cmd1]
             /\ last' = Dispatch(cmd1, "first", s1.RetryCount,
                                 [cmd |-> cmd1, ran |-> TRUE,
                                  run |-> RunOf(r), raw |-> NoOutcome,
                                  err |-> Nil])
             /\ dispatched' = Append(dispatched, cmd1.line)
             /\ pc' = stepAfterHandle(cmd1)

ResolveHandle ==
  /\ pc = "resolve"
  /\ UNCHANGED <<e, ctxErr, lineno, line, ri, attempt, retryDuration, qargs,
                 dispatched, skipped>>
  /\ LET r == afterRun(cmd, Cmds(cmd.name),
                       [wait |-> last.run.wait, runErr |-> Nil, s |-> s])
     IN /\ last' = Dispatch(cmd, "first", s.RetryCount, r)
        /\ cmd' = r.cmd
        /\ AfterRunCommand(r)

RunLineRest ==
  /\ RunLine
  /\ ~(dispatched' # dispatched /\ HandleReturned(last'))

(***************************************************************************)
(* The retry loop: backoff.get(), the select, one command of the replay.   *)
(***************************************************************************)
\* mutant: the retry loop ends after the first attempt
retryLoopCondNever(er) == FALSE

\* mutant: the retry loop goes on after an attempt that succeeded
retryLoopCondAlways(er) == TRUE

\* the condition of the retry loop, for err != nil, as it is evaluated
\* after an attempt (it holds when the loop is entered)
retryLoopCond(er) == er # Nil

Backoff ==
  /\ pc = "backoff"
  /\ LET g == get(backoff) IN
       /\ retryDuration' = g.d
       /\ backoff' = g.eb
  /\ pc' = "wait"
  /\ UNCHANGED <<e, ctxErr, lineno, line, sectionStart, sectionCmds, s, cmd,
                 err, ri, result, last, dispatched, attempt, skipped, qargs>>

\* mutant: the retry counter keeps its value when the episode ends
endEpisodeKeep(st) == st

\* s.RetryCount = 0 at the end of a retry episode, after the attempt that
\* succeeded and before the return at a cancellation
endEpisode(st) == [st EXCEPT !.RetryCount = 0]

\* mutant: the select of the retry loop waits for the timer alone
selectCaseTimer(ctx) == "timer"

\* the case the select of the retry loop takes: s.Context().Done() when the
\* context is done before the timer fires, time.After(retryDuration) else
selectCase(ctx) == IF ctx # Nil THEN "done" ELSE "timer"

Select ==
  /\ pc = "wait"
  /\ UNCHANGED <<e, ctxErr, lineno, line, cmd, backoff, retryDuration, err,
                 last, dispatched, skipped, qargs>>
  /\ IF selectCase(ctxErr) = "done"
     THEN /\ Return(endEpisode(s), sectionStart,
                     lineErr(lineno, ctxErr))
          /\ UNCHANGED <<ri, attempt>>
     ELSE /\ s.RetryCount < MaxRetries
          /\ s' = [s EXCEPT !.RetryCount = @ + 1]
          /\ ri' = replayStart(sectionCmds)
          /\ attempt' = <<>>
          /\ pc' = "replay"
          /\ UNCHANGED <<result, sectionStart, sectionCmds>>

\* mutant: a replay expands the arguments of the command again
replayCmdExpanded(st, c) ==
  LET impl == Cmds(c.name)
      regexpArgs == IF impl # NilCap THEN impl.RegexpArgs ELSE {}
      origArgs == expandArgs(st, c.rawArgs, regexpArgs)
  IN [c EXCEPT !.origArgs = origArgs, !.args = origArgs]

\* the command a replay hands to runCommand: the entry of sectionCmds as
\* it stands
replayCmd(st, c) == c

Replay ==
  /\ pc = "replay"
  /\ UNCHANGED <<e, ctxErr, lineno, line, cmd, backoff, retryDuration,
                 result, sectionStart, skipped, qargs>>
  /\ LET c == replayCmd(s, sectionCmds[ri])
         impl == Cmds(c.name)
     IN \E r \in runCommand(s, c, impl) :
       /\ last' = Dispatch(c, "replay", s.RetryCount, r)
       /\ dispatched' = Append(dispatched, c.line)
       /\ attempt' = Append(attempt, [line |-> c.line, failed |-> r.err # Nil])
       /\ sectionCmds' = [sectionCmds EXCEPT ![ri] = r.cmd]
       /\ err' = r.err
       /\ IF r.err = Nil /\ ri < Len(sectionCmds)
          THEN /\ s' = r.s
               /\ ri' = ri + 1
               /\ UNCHANGED pc
          ELSE IF retryLoopCond(r.err)
          THEN /\ s' = FlushLog(r.s)
               /\ pc' = "backoff"
               /\ UNCHANGED ri
          ELSE /\ s' = endEpisode(FlushLog(r.s))
               /\ pc' = "loop"
               /\ UNCHANGED ri

(***************************************************************************)
(* quoteArgs and parse applied to a line outside Execute: a line is made   *)
(* of a command name and quoteArgs(args), or given as it stands, and then  *)
(* parsed as ExecuteLine parses it.                                        *)
(***************************************************************************)
QuoteLine(argLists) ==
  /\ pc = "loop"
  /\ lineno = 0
  /\ \E args \in argLists :
       /\ qargs' = args
       /\ line' = <<"c", " ">> \o quoteArgs(args)
  /\ pc' = "quoted"
  /\ UNCHANGED <<e, ctxErr, lineno, sectionStart, sectionCmds, s, cmd,
                 backoff, retryDuration, err, ri, result, last, dispatched,
                 attempt, skipped>>

LiteralLine(lines) ==
  /\ pc = "loop"
  /\ lineno = 0
  /\ line' \in lines
  /\ pc' = "quoted"
  /\ UNCHANGED <<e, ctxErr, lineno, sectionStart, sectionCmds, s, cmd,
                 backoff, retryDuration, err, ri, result, last, dispatched,
                 attempt, skipped, qargs>>

ParseLine ==
  /\ pc = "quoted"
  /\ LET p == parse(0, line) IN
       /\ cmd' = p.cmd
       /\ result' = IF p.err = NoErr THEN Nil ELSE MkErr(p.err)
  /\ pc' = "parsed"
  /\ UNCHANGED <<e, ctxErr, lineno, line, sectionStart, sectionCmds, s,
                 backoff, retryDuration, err, ri, last, dispatched, attempt,
                 skipped, qargs>>

(***************************************************************************)
(* Engine.ExecuteLine: one call runs one line against the State and        *)
(* returns.  pc is "host" while the host of the Engine is between calls,   *)
(* lineno counts the lines it has handed over (parse is called with line   *)
(* number 0), result is the error of the latest call.  The deferred        *)
(* FlushLog runs at every return.                                          *)
(***************************************************************************)
\* mutant: the stop signal ends the call without error, as it ends Execute
executeLineErrStopNil(er) == IF IsStop(er) THEN Nil ELSE er

\* the error ExecuteLine returns when runCommand returned er
executeLineErr(er) == er

ExecuteLine(lines) ==
  /\ pc = "host"
  /\ lineno < MaxLines
  /\ pc' = "host"
  /\ lineno' = lineno + 1
  /\ UNCHANGED <<e, ctxErr, sectionStart, sectionCmds, backoff,
                 retryDuration, err, ri, attempt, qargs>>
  /\ \E text \in lines :
       /\ line' = text
       /\ LET p == parse(0, text) IN
          IF p.isNil /\ p.err = NoErr
          THEN /\ result' = Nil
               /\ s' = FlushLog(s)
               /\ UNCHANGED <<cmd, last, dispatched, skipped>>
          ELSE IF p.err # NoErr
          THEN /\ result' = MkErr(p.err)
               /\ s' = FlushLog(s)
               /\ UNCHANGED <<cmd, last, dispatched, skipped>>
          ELSE LET c == conditionsActive(s, p.cmd.conds) IN
            IF c.err # Nil
            THEN /\ result' = c.err
                 /\ s' = FlushLog(s)
                 /\ cmd' = p.cmd
                 /\ UNCHANGED <<last, dispatched, skipped>>
            ELSE IF ~c.ok
            THEN /\ result' = Nil
                 /\ s' = FlushLog(Logf(s))
                 /\ cmd' = p.cmd
                 /\ skipped' = skipped \cup {lineno + 1}
                 /\ UNCHANGED <<last, dispatched>>
            ELSE
              LET impl == Cmds(p.cmd.name)
                  regexpArgs == IF impl # NilCap THEN impl.RegexpArgs ELSE {}
                  args == expandArgs(s, p.cmd.rawArgs, regexpArgs)
                  cmd1 == [p.cmd EXCEPT !.origArgs = args, !.args = args]
              IN \E r \in runCommand(s, cmd1, impl) :
                /\ last' = Dispatch(cmd1, "first", s.RetryCount, r)
                /\ dispatched' = Append(dispatched, lineno + 1)
                /\ cmd' = r.cmd
                /\ s' = FlushLog(IF IsStop(r.err) THEN Logf(r.s) ELSE r.s)
                /\ result' = executeLineErr(r.err)
                /\ UNCHANGED skipped

\* the context is cancelled, or its deadline passes, while Execute runs
Cancel ==
  /\ pc \notin {"done", "quoted", "parsed"}
  /\ ctxErr = Nil
  /\ ctxErr' \in {MkErr("canceled")}
  /\ UNCHANGED <<pc, e, lineno, line, sectionStart, sectionCmds, s, cmd,
                 backoff, retryDuration, err, ri, result, last, dispatched,
                 attempt, skipped, qargs>>

(***************************************************************************)
(* Script lines the reader can yield, and the Engine configurations.       *)
(***************************************************************************)
RECURSIVE Words(_)
Words(ws) ==
  IF ws = <<>> THEN <<>>
  ELSE IF Len(ws) = 1 THEN ws[1]
  ELSE ws[1] \o <<" ">> \o Words(Tail(ws))

Prefixes == {success, failure, successOrFailure, successRetryOnFailure,
             failureRetryOnSuccess}

\* the line `prefix name`
Prefixed(want, name) ==
  IF want = success THEN name ELSE Words(<<want, name>>)

SectionLine == <<"#">>

\* a command with every expected-status prefix
Lines == {SectionLine} \cup {Prefixed(w, <<"c">>) : w \in Prefixes}

\* the stop command with every prefix
StopLines ==
  {SectionLine, <<"c">>, Prefixed(failure, <<"c">>),
   Prefixed(successOrFailure, <<"c">>)}
  \cup {Prefixed(w, <<"s">>) : w \in Prefixes}

\* guarded commands next to a retried command
CondLines ==
  {SectionLine, <<"c">>, Prefixed(successRetryOnFailure, <<"c">>),
   Words(<<<<"[", "f", "]">>, <<"c">>>>),
   Words(<<<<"[", "!", "t", "]">>, <<"c">>>>),
   Words(<<<<"[", "t", "]">>, <<"c">>>>)}

\* a detached command and the wait command with every prefix
WaitLines ==
  {SectionLine, <<"c">>, Words(<<<<"a">>, <<"&">>>>)}
  \cup {Prefixed(w, <<"w">>) : w \in Prefixes}

\* a retried command
RetryLines == {SectionLine, <<"c">>, Prefixed(successRetryOnFailure, <<"c">>)}

\* a command that is not registered, with every prefix
UnknownLines ==
  {SectionLine, <<"c">>} \cup {Prefixed(w, <<"u">>) : w \in Prefixes}

\* a guard whose evaluation fails, with every prefix of the line
CondErrLines ==
  {SectionLine, <<"c">>, Prefixed(successRetryOnFailure, <<"c">>)}
  \cup {Prefixed(w, Words(<<<<"[", "e", "]">>, <<"c">>>>)) : w \in Prefixes}

\* lines that do not parse, by the kind of the error
UnterminatedLines ==
  {Words(<<<<"c">>, <<"'", "x">>>>),
   Words(<<failure, <<"c">>, <<"'", "x">>>>)}

DuplicateLines ==
  {Words(<<failure, successOrFailure, <<"c">>>>),
   Words(<<successRetryOnFailure, failure, <<"c">>>>)}

EmptyCondLines ==
  {Words(<<<<"[", "]">>, <<"c">>>>),
   Words(<<successOrFailure, <<"[", "!", "]">>, <<"c">>>>)}

MissingCmdLines ==
  {failure, <<"[", "t", "]">>,
   Words(<<successRetryOnFailure, <<"[", "f", "]">>>>)}

BadLines ==
  UnterminatedLines \cup DuplicateLines \cup EmptyCondLines
  \cup MissingCmdLines

\* blank lines and lines that hold a comment only, after white space
BlankLines == {<<>>, <<" ">>, <<"\t", " ">>, <<" ", "#", "x">>}

ParseLines ==
  {SectionLine, <<"c">>, Prefixed(successRetryOnFailure, <<"c">>),
   Words(<<<<"[", "f", "]">>, <<"c">>>>)}
  \cup BadLines \cup BlankLines

\* argument lists for quoteArgs: arguments of up to MaxArgLen characters,
\* among them the quote, two separators, the background marker
ArgChars == {"x", "'", " ", "#", "&"}

ArgStrings == UNION {[1..k -> ArgChars] : k \in 0..MaxArgLen}

ArgLists == UNION {[1..k -> ArgStrings] : k \in 0..MaxArgs}

\* the example of the package documentation, and the argument it stands for
DontLine ==
  <<"'", "D", "o", "n", "'", "'", "t", " ", "c", "o", "m", "m", "u", "n",
    "i", "c", "a", "t", "e", " ", "b", "y", " ", "s", "h", "a", "r", "i",
    "n", "g", " ", "m", "e", "m", "o", "r", "y", ".", "'">>

DontText ==
  <<"D", "o", "n", "'", "t", " ", "c", "o", "m", "m", "u", "n", "i", "c",
    "a", "t", "e", " ", "b", "y", " ", "s", "h", "a", "r", "i", "n", "g",
    " ", "m", "e", "m", "o", "r", "y", ".">>

CmdDontLine == <<"c", " ">> \o DontLine

\* lines with one and with two expected-status markers before the command
Markers == Prefixes \ {success}

OneMarkerLines ==
  {Prefixed(w, <<"c">>) : w \in Prefixes}
  \cup {Words(<<<<"[", "t", "]">>, m, <<"c">>>>) : m \in Markers}

TwoMarkerLines ==
  {Words(<<m1, m2, <<"c">>>>) : m1 \in Markers, m2 \in Markers}
  \cup {Words(<<m1, <<"[", "t", "]">>, m2, <<"c">>>>) :
           m1 \in Markers, m2 \in Markers}
  \cup {Words(<<<<"[", "f", "]">>, m1, <<"[", "t", "]">>, m2, <<"c">>>>) :
           m1 \in Markers, m2 \in Markers}

\* lines of bare words x and & after the command name, ended by a word
AmpWords == {<<"x">>, <<"&">>}

AmpArgs == UNION {[1..k -> AmpWords] : k \in 0..MaxArgs}

EndedBy(a, word) == Words(<<<<"c">>>> \o a \o <<word>>)

AmpLines ==
  {EndedBy(a, w) : a \in AmpArgs, w \in {<<"&">>, <<"'", "&", "'">>, <<"x">>}}
  \cup {EndedBy(a, <<"&">>) \o <<" ", "#", "x">> : a \in AmpArgs}

\* lines whose last token is the bare word c, after a token that is quoted
\* or made of several fragments
NameLastLines ==
  {Words(<<<<"'", "x", "'">>, <<"c">>>>),
   Words(<<<<"x", "'", "y", "'">>, <<"c">>>>),
   Words(<<<<"'", "!", "'">>, <<"c">>>>),
   Words(<<failure, <<"'", "x", "'">>, <<"c">>>>)}

GivenLines ==
  {DontLine, CmdDontLine} \cup OneMarkerLines \cup TwoMarkerLines
  \cup AmpLines \cup NameLastLines

\* commands with and without a trailing &, the wait and the stop command,
\* and a retried line that fails in each attempt
BgLines ==
  {Prefixed(successRetryOnFailure, <<"u">>), <<"a">>,
   Words(<<<<"a">>, <<"&">>>>),
   Words(<<successOrFailure, <<"c">>, <<"&">>>>),
   Words(<<failure, <<"a">>, <<"&">>>>), <<"w">>, <<"s">>}

\* guards whose tags are unregistered, need a suffix and lack it, have a
\* suffix and must not, have two colons, or follow a guard that is or is
\* not met; and a retried line that fails in each attempt
Guard(tag) == <<"[">> \o tag \o <<"]">>

LookupLines ==
  {SectionLine, Prefixed(successRetryOnFailure, <<"u">>)}
  \cup {Words(<<Guard(tag), <<"c">>>>) :
          tag \in {<<"u">>, <<"p">>, <<"u", ":", "x">>, <<"t", ":", "x">>,
                   <<"p", ":", "t">>, <<"p", ":", "u", ":", "x">>,
                   <<"u", ":", "p", ":", "t">>}}
  \cup {Words(<<Guard(<<"t">>), Guard(<<"u">>), <<"c">>>>),
        Words(<<Guard(<<"f">>), Guard(<<"p">>), <<"c">>>>),
        Words(<<successOrFailure, Guard(<<"!", "p">>), <<"c">>>>)}

\* one line for each way Execute returns: a command that succeeds or fails,
\* with and without retries, the stop command, a guard that gives an error,
\* a line that does not parse
QuietLines ==
  {SectionLine, <<"c">>, Prefixed(successRetryOnFailure, <<"c">>), <<"s">>,
   Words(<<Guard(<<"e">>), <<"c">>>>), Words(<<<<"c">>, <<"'", "x">>>>)}

\* commands that are and are not detached, in and outside a section, and
\* a line that is retried
SerialLines ==
  {SectionLine, <<"c">>, Words(<<<<"a">>, <<"&">>>>),
   Prefixed(successRetryOnFailure, <<"c">>)}

\* a section of a plain line and a retried line
LiveLines == {<<"c">>, Prefixed(successRetryOnFailure, <<"c">>)}

\* a section with a plain line, a retried line, and a retried line whose
\* command is not registered
EpisodeLines ==
  {SectionLine, <<"c">>, Prefixed(successRetryOnFailure, <<"c">>),
   Prefixed(successRetryOnFailure, <<"u">>)}

\* a command with an argument that holds the variable, with and without a
\* guard that is not met, the command that binds the variable, and a line
\* that is retried
ExpandLines ==
  {Words(<<<<"c">>, <<"$", "V">>>>),
   Words(<<Guard(<<"f">>), <<"c">>, <<"$", "V">>>>),
   <<"v">>, Prefixed(successRetryOnFailure, <<"c">>)}

\* detached lines that expect a failure, with and without retries, and a
\* retried line that fails in each attempt
DetachLines ==
  {SectionLine, Prefixed(successRetryOnFailure, <<"u">>),
   Words(<<failure, <<"b">>, <<"&">>>>),
   Words(<<failureRetryOnSuccess, <<"b">>, <<"&">>>>)}

\* lines that ask for help, of commands that declare flags and that do not,
\* a line with a declared flag, and a retried line that fails in each attempt
HelpLines ==
  {SectionLine, Prefixed(successRetryOnFailure, <<"u">>),
   Words(<<<<"c">>, <<"-", "h">>>>),
   Words(<<failure, <<"c">>, <<"-", "h">>>>),
   Words(<<<<"g">>, <<"-", "-", "h", "e", "l", "p">>>>),
   Words(<<<<"g">>, <<"-", "v">>>>),
   Words(<<<<"c", "+">>, <<"-", "h">>>>)}

\* a command that leaves output, commands whose Run returns no WaitFunc,
\* a command that is not registered, a request to detach a command that
\* cannot be detached, an undeclared flag, and the wait command after a
\* detached command
FrameLines ==
  {<<"b">>, Prefixed(successOrFailure, <<"c">>),
   Prefixed(successRetryOnFailure, <<"u">>),
   Words(<<successOrFailure, <<"c">>, <<"&">>>>),
   Words(<<<<"g">>, <<"-", "x">>>>),
   Words(<<<<"b">>, <<"&">>>>), <<"w">>}

\* two guards, one that is not met and one that is not registered, lacks
\* its suffix, has a suffix it must not have or gives an error, in either
\* order; and a retried line that fails in each attempt
BadTags == {<<"u">>, <<"p">>, <<"t", ":", "x">>, <<"e">>}

UnmetTags == {<<"f">>, <<"!", "t">>}

GuardLines ==
  {SectionLine, Prefixed(successRetryOnFailure, <<"u">>)}
  \cup {Words(<<Guard(f), Guard(b), <<"c">>>>) : f \in UnmetTags, b \in BadTags}
  \cup {Words(<<Guard(b), Guard(f), <<"c">>>>) : f \in UnmetTags, b \in BadTags}
  \cup {Words(<<Guard(<<"t">>), Guard(<<"f">>), Guard(<<"e">>), <<"c">>>>)}

\* lines handed to ExecuteLine: the stop command with and without a
\* prefix, a command with and without the retry prefixes, a command that is
\* not registered, a guard that is not met, a line that does not parse, a
\* blank line
ExecLines ==
  {<<"s">>, Prefixed(successOrFailure, <<"s">>), <<"c">>,
   Prefixed(successRetryOnFailure, <<"c">>),
   Prefixed(failureRetryOnSuccess, <<"c">>),
   Prefixed(successRetryOnFailure, <<"u">>),
   Words(<<Guard(<<"f">>), <<"c">>>>),
   Words(<<<<"c">>, <<"'", "x">>>>), <<>>}

MkEngine(i, m) == [RetryInterval |-> i, MaxRetryInterval |-> m, Quiet |-> FALSE]

DefaultEngine == MkEngine(0, 0)

Engines == {DefaultEngine}

\* the Engine with and without quiet mode
QuietEngines == {[DefaultEngine EXCEPT !.Quiet = q] : q \in BOOLEAN}

\* retry intervals and maxima, in units of 100ms, 0 for unset
RetryEngines == {MkEngine(i, m) : i \in {0, 2, 6}, m \in {0, 3}}

Init == InitWith(Engines)

NextWith(lines) ==
  \/ LoopTop(lines)
  \/ RunLine
  \/ Backoff
  \/ Select
  \/ Replay
  \/ Cancel

Next == NextWith(Lines)

Spec == Init /\ [][Next]_vars

NextStop == NextWith(StopLines)

SpecStop == Init /\ [][NextStop]_vars

NextCond == NextWith(CondLines)

SpecCond == Init /\ [][NextCond]_vars

NextWait == NextWith(WaitLines)

SpecWait == Init /\ [][NextWait]_vars

InitRetry == InitWith(RetryEngines)

NextRetry == NextWith(RetryLines)

SpecRetry == InitRetry /\ [][NextRetry]_vars

NextUnknown == NextWith(UnknownLines)

SpecUnknown == Init /\ [][NextUnknown]_vars

NextCondErr == NextWith(CondErrLines)

SpecCondErr == Init /\ [][NextCondErr]_vars

NextParse == NextWith(ParseLines)

SpecParse == Init /\ [][NextParse]_vars

NextLine == QuoteLine(ArgLists) \/ LiteralLine(GivenLines) \/ ParseLine

SpecLine == Init /\ [][NextLine]_vars

NextBg == NextWith(BgLines)

SpecBg == Init /\ [][NextBg]_vars

NextHelp == NextWith(HelpLines)

SpecHelp == Init /\ [][NextHelp]_vars

NextLookup == NextWith(LookupLines)

SpecLookup == Init /\ [][NextLookup]_vars

InitQuiet == InitWith(QuietEngines)

NextQuiet == NextWith(QuietLines)

SpecQuiet == InitQuiet /\ [][NextQuiet]_vars

NextSerial ==
  \/ LoopTop(SerialLines)
  \/ CallRun
  \/ ResolveHandle
  \/ RunLineRest
  \/ Backoff
  \/ Select
  \/ Replay
  \/ Cancel

SpecSerial == Init /\ [][NextSerial]_vars

NextLive == NextWith(LiveLines)

\* the retry loop goes on: the timer of the select fires and the commands
\* of an attempt return
SpecLive ==
  /\ Init
  /\ [][NextLive]_vars
  /\ WF_vars(Backoff)
  /\ WF_vars(Select)
  /\ WF_vars(Replay)

NextEpisode == NextWith(EpisodeLines)

SpecEpisode == Init /\ [][NextEpisode]_vars

NextExpand == NextWith(ExpandLines)

SpecExpand == Init /\ [][NextExpand]_vars

NextDetach == NextWith(DetachLines)

SpecDetach == Init /\ [][NextDetach]_vars

NextFrame == NextWith(FrameLines)

SpecFrame == Init /\ [][NextFrame]_vars

NextGuard == NextWith(GuardLines)

SpecGuard == Init /\ [][NextGuard]_vars

\* the host has a State and an Engine and has not called ExecuteLine yet
InitHost ==
  /\ pc = "host"
  /\ e \in Engines
  /\ ctxErr = Nil
  /\ lineno = 0
  /\ line = <<>>
  /\ sectionStart = FALSE
  /\ sectionCmds = <<>>
  /\ s = NewState
  /\ cmd = NilCmd
  /\ backoff = NoBackoff
  /\ retryDuration = 0
  /\ err = Nil
  /\ ri = 0
  /\ result = Nil
  /\ last = NoDispatch
  /\ dispatched = <<>>
  /\ attempt = <<>>
  /\ skipped = {}
  /\ qargs = <<>>

NextExecuteLine == ExecuteLine(ExecLines)

SpecExecuteLine == InitHost /\ [][NextExecuteLine]_vars

TypeOK ==
  pc \in {"loop", "line", "resolve", "backoff", "wait", "replay", "done",
          "quoted", "parsed", "host"}

(***************************************************************************)
(* Properties.                                                             *)
(***************************************************************************)
RetryPrefixes == {successRetryOnFailure, failureRetryOnSuccess}

\* the lines of the commands of a section, in the order of sectionCmds
SectionLinesOf(cmds) == [i \in 1..Len(cmds) |-> cmds[i].line]

AttemptLines == [i \in 1..Len(attempt) |-> attempt[i].line]

\* Execute has returned and the latest dispatch was of the last line read
ReturnedAtLast ==
  /\ pc = "done"
  /\ last.line = lineno
  /\ dispatched # <<>>
  /\ dispatched[Len(dispatched)] = last.line

\* the first run of a line without a retry prefix handed checkStatus an
\* outcome for which checkStatus returned an error
UnretriedFailure ==
  /\ last.pass = "first"
  /\ last.want \notin RetryPrefixes
  /\ last.raw # NoOutcome
  /\ last.err # Nil

\* C1 (as claimed): when the first run of a line without a retry prefix has
\* an outcome that checkStatus reports as an error, Execute returns a
\* non-nil error and no later line is dispatched.
C1_FailFast == UnretriedFailure => (ReturnedAtLast /\ result # Nil)

\* C1 (amended): the same, unless the outcome is the stop signal: then
\* Execute returns nil; in both cases no later line is dispatched, and the
\* error returned is the command error of that line.
C1_FailFastUnlessStop ==
  UnretriedFailure =>
    /\ ReturnedAtLast
    /\ last.raw.kind # "stop" => (result # Nil /\ result = last.err)
    /\ last.raw.kind = "stop" => result = Nil

C1_Witness ==
  /\ UnretriedFailure
  /\ pc = "done"
  /\ last.want = failure
  /\ last.raw.kind = "nil"
  /\ result.kind = "unexpected success"
  /\ Len(dispatched) >= 2

\* C2: in the script `cmd1; stop; cmd2` Execute dispatches cmd1, then
\* stop, dispatches nothing after stop and returns nil: once an unprefixed
\* stop has been dispatched Execute has returned nil with stop as the
\* latest dispatch.
C2_StopSemantics ==
  (last.name = <<"s">> /\ last.want = success /\ last.pass = "first") =>
    (last.ran /\ ReturnedAtLast /\ result = Nil)

C2_Witness ==
  /\ pc = "done"
  /\ result = Nil
  /\ dispatched = <<1, 2>>
  /\ last.name = <<"s">>
  /\ last.want = success
  /\ lineno = 2

\* C3 (as claimed): for every prefix, once a command has returned the stop
\* signal Execute has returned nil, without a retry or a replay and
\* without a later dispatch.
C3_StopAnyPrefix ==
  last.raw.kind = "stop" =>
    (last.pass = "first" /\ ReturnedAtLast /\ result = Nil)

\* C4: a retry attempt runs the commands of the section from the first
\* one, in source order, and ends at the first command that returns an
\* error; the episode ends when an attempt has run every command of the
\* section without error, and Execute returns from inside an episode only
\* with the error of the cancelled context.
C4_SectionReplay ==
  /\ (last.pass = "first" /\ last.want \in RetryPrefixes /\ last.err # Nil)
       => (pc \in {"backoff", "wait", "replay"}
           \/ (pc = "done" /\ ctxErr # Nil))
  /\ pc = "replay" =>
       /\ ri <= Len(sectionCmds)
       /\ AttemptLines = SubSeq(SectionLinesOf(sectionCmds), 1, ri - 1)
       /\ \A i \in 1..Len(attempt) : ~attempt[i].failed
  /\ (pc \in {"backoff", "wait"} /\ s.RetryCount > 0) =>
       /\ Len(attempt) >= 1
       /\ AttemptLines = SubSeq(SectionLinesOf(sectionCmds), 1, Len(attempt))
       /\ \A i \in 1..Len(attempt) : attempt[i].failed <=> i = Len(attempt)
       /\ err # Nil
  /\ (pc = "loop" /\ last.pass = "replay" /\ lineno = last.line) =>
       /\ AttemptLines = SectionLinesOf(sectionCmds)
       /\ \A i \in 1..Len(attempt) : ~attempt[i].failed
       /\ err = Nil
  /\ (pc = "done" /\ err # Nil) =>
       (ctxErr # Nil /\ result = lineErr(lineno, ctxErr))

C4_Witness ==
  /\ pc = "loop"
  /\ last.pass = "replay"
  /\ last.retry = 2
  /\ Len(attempt) = 2
  /\ lineno = last.line

RECURSIVE Pow2(_)
Pow2(n) == IF n = 0 THEN 1 ELSE 2 * Pow2(n - 1)

\* C5 (as claimed): the wait before the N-th retry attempt of an episode
\* is min(I*2^(N-1), M), and no wait exceeds M, for the interval I and the
\* maximum M in force (a zero setting replaced by the default).
C5_RetryBound ==
  pc = "wait" =>
    /\ retryDuration =
         Min(retryInterval(e) * Pow2(s.RetryCount), maxRetryInterval(e))
    /\ retryDuration <= maxRetryInterval(e)

\* C6: a first run of a line `! cmd` that hands checkStatus a nil outcome
\* yields the 'unexpected success' command error, Execute returns that
\* error and dispatches no later line; checkStatus reports unexpected
\* success for a nil outcome under `!` and under `!*`.
C6_NegatedSuccess ==
  /\ (last.pass = "first" /\ last.want = failure /\ last.raw = Nil) =>
       /\ last.err = [ErrUnexpectedSuccess EXCEPT !.cmdErr = TRUE,
                                                  !.line = last.line]
       /\ ReturnedAtLast
       /\ result = last.err
  /\ (last.want \in {failure, failureRetryOnSuccess} /\ last.raw = Nil) =>
       last.err.kind = "unexpected success"

C6_Witness ==
  /\ pc = "done"
  /\ last.pass = "first"
  /\ last.want = failure
  /\ last.raw = Nil
  /\ result.kind = "unexpected success"
  /\ lineno >= 2

\* C7 (as claimed): a command whose guard was not met is never dispatched,
\* neither on the first pass nor in a replay of its section.
C7_ConditionGating == last.line \notin skipped

\* C8: no dispatch and no return of Execute reports the error of the
\* completion handle of a detached command, except as a waitError
\* produced by a wait command that was just dispatched.
C8_BackgroundIsolation ==
  /\ ~last.raw.hbg
  /\ ~last.err.hbg
  /\ ~result.hbg
  /\ ~err.hbg
  /\ result.bg # {} =>
       (last.name = <<"w">> /\ last.raw.kind = "wait" /\ last.raw.bg = result.bg)

C8_Witness ==
  /\ pc = "done"
  /\ result = Nil
  /\ ctxErr = Nil
  /\ \E i \in DOMAIN s.background : s.background[i].wait.err # "nil"
  /\ lineno >= 2

\* C9 (as claimed): for every prefix of the waiting line, once a wait has
\* surfaced a background failure Execute has returned that error, without
\* a retry.
C9_WaitErrorPropagated ==
  last.raw.kind = "wait" => (ReturnedAtLast /\ result = last.err)

\* C10: when the context is already done at the top of the line loop,
\* Execute returns the context's error, not wrapped as a command error,
\* without reading or parsing a line, evaluating a guard or dispatching.
C10_CancellationCheck ==
  [][(pc = "loop" /\ ctxErr # Nil) =>
       /\ pc' = "done"
       /\ result' = [ctxErr EXCEPT !.line = lineno]
       /\ ~result'.cmdErr
       /\ lineno' = lineno
       /\ cmd' = cmd
       /\ dispatched' = dispatched
       /\ last' = last
       /\ skipped' = skipped]_vars

C10_Witness ==
  /\ pc = "done"
  /\ err = Nil
  /\ result.kind = "canceled"
  /\ ~result.cmdErr
  /\ result.line = lineno
  /\ lineno >= 1
  /\ dispatched # <<>>

\* the signal arrived after the check that precedes the next dispatch: at
\* a line already read, or between the select and the first replayed command
PastCheck == pc = "line" \/ (pc = "replay" /\ attempt = <<>>)

\* C11 (as claimed): once the context is done Execute dispatches no further
\* command, in the line loop and inside a replay attempt that is running
\* when the signal is set (a dispatch that had passed its check of the
\* context when the signal arrived is left aside).
C11_NoDispatchAfterCancel ==
  [][(ctxErr # Nil /\ ~PastCheck) => dispatched' = dispatched]_vars

\* C12: when the context is done while Execute waits in the select of the
\* retry loop, Execute starts no replay attempt and returns the context's
\* error, not wrapped as a command error, with s.RetryCount at 0.
C12_CancelDuringBackoff ==
  [][(pc = "wait" /\ ctxErr # Nil) =>
       /\ pc' = "done"
       /\ result' = [ctxErr EXCEPT !.line = lineno]
       /\ ~result'.cmdErr
       /\ s'.RetryCount = 0
       /\ dispatched' = dispatched
       /\ attempt' = attempt]_vars

C12_Witness ==
  /\ pc = "done"
  /\ err # Nil
  /\ last.pass = "replay"
  /\ last.retry >= 1
  /\ result.kind = "canceled"
  /\ ~result.cmdErr
  /\ s.RetryCount = 0

\* the command error checkStatus makes of the outcome of the latest dispatch
LastCmdError(er) == [er EXCEPT !.cmdErr = TRUE, !.line = last.line]

\* C13: for an outcome that is neither a stop signal, a wait error nor a
\* cancellation, checkStatus returns: for nil, nil under Success,
\* RetryUntilSuccess and Either and 'unexpected success' under Failure and
\* RetryUntilFailure; for an error, that error as a command error under
\* Success and RetryUntilSuccess and nil under Failure, RetryUntilFailure
\* and Either.
C13_StatusTable ==
  (/\ last.raw # NoOutcome
   /\ ~IsStop(last.raw) /\ ~IsWaitError(last.raw) /\ ~IsCtxErr(last.raw)) =>
    /\ last.want \in Prefixes
    /\ (last.raw = Nil /\ last.want \in {success, successRetryOnFailure,
                                          successOrFailure})
         => last.err = Nil
    /\ (last.raw = Nil /\ last.want \in {failure, failureRetryOnSuccess})
         => last.err = LastCmdError(ErrUnexpectedSuccess)
    /\ (last.raw # Nil /\ last.want \in {success, successRetryOnFailure})
         => (last.err = LastCmdError(last.raw) /\ last.err # Nil)
    /\ (last.raw # Nil /\ last.want \in {failure, failureRetryOnSuccess,
                                          successOrFailure})
         => last.err = Nil

C13_Witness ==
  /\ pc = "loop"
  /\ last.want = successOrFailure
  /\ last.raw.kind = "err"
  /\ last.err = Nil
  /\ Len(dispatched) >= 2

\* C14: a cancellation returned by a command is a failure of the line
\* under Failure and RetryUntilFailure: checkStatus returns it as a command
\* error (which Execute returns for a `!` line), and under Either it is
\* accepted and the script goes on.
C14_CancelledCommand ==
  IsCtxErr(last.raw) =>
    /\ last.want \in {failure, failureRetryOnSuccess}
         => last.err = LastCmdError(last.raw)
    /\ (last.want = failure /\ last.pass = "first")
         => (ReturnedAtLast /\ result = last.err /\ result.cmdErr)
    /\ last.want = successOrFailure
         => (last.err = Nil /\ ~(result.cmdErr /\ result.line = last.line))

C14_Witness ==
  /\ pc = "done"
  /\ ctxErr = Nil
  /\ last.want = failure
  /\ last.raw.kind = "canceled"
  /\ result.kind = "canceled"
  /\ result.cmdErr
  /\ result.line = lineno

\* C15 (as claimed): for every prefix, a line that names a command that
\* is not registered makes Execute return the 'unknown command' command
\* error of that line, without a call of a capability and without a retry.
C15_UnknownCommandFatal ==
  last.name = <<"u">> =>
    /\ ~last.ran
    /\ last.err = LastCmdError(MkErr("unknown command"))
    /\ last.pass = "first"
    /\ ReturnedAtLast
    /\ result = last.err

\* the error conditionsActive returns for the guards of the line in cmd
GuardErr == conditionsActive(s, cmd.conds).err

\* C16 (as claimed): an error of the evaluation of a guard is suppressed
\* when the line carries `!` or `?`: Execute does not return it.
C16_CondErrorReconciled ==
  (pc = "done" /\ cmd.want \in {failure, successOrFailure}) =>
    result.kind # "evaluating condition"

\* C16 (amended): for every prefix of the line, an error of the evaluation
\* of a guard makes Execute return that error with the line's location,
\* not as a command error, without dispatching the command (a step that
\* changes ctxErr is the context's, not Execute's).
C16_CondErrorReturned ==
  [][(pc = "line" /\ GuardErr # Nil /\ ctxErr' = ctxErr) =>
       /\ pc' = "done"
       /\ result' = [GuardErr EXCEPT !.line = lineno]
       /\ result'.kind = "evaluating condition"
       /\ ~result'.cmdErr
       /\ dispatched' = dispatched
       /\ last' = last]_vars

C16_Witness ==
  /\ pc = "done"
  /\ cmd.want = successOrFailure
  /\ result.kind = "evaluating condition"
  /\ result.line = lineno
  /\ lineno >= 2
  /\ dispatched # <<>>

\* C17: a line with an unterminated quote, a duplicate status marker, an
\* empty condition or no command name makes Execute return a non-nil
\* error that wraps ParseError and carries the line's location, whatever
\* prefixes the line has; no guard is evaluated and no command dispatched
\* for that line, nor anything after the return.
C17_ParseErrorFatal ==
  [][/\ (lineno' = lineno + 1 /\ line' \in BadLines) =>
          /\ pc' = "done"
          /\ result' # Nil
          /\ ParseError.kind \in result'.wraps
          /\ ~result'.cmdErr
          /\ result'.line = lineno'
          /\ line' \in UnterminatedLines
               => result'.kind = "unterminated quoted argument"
          /\ line' \in DuplicateLines
               => result'.kind = "duplicated '!', '?', '*' or '!*' token"
          /\ line' \in EmptyCondLines => result'.kind = "empty condition"
          /\ line' \in MissingCmdLines => result'.kind = "missing command"
          /\ dispatched' = dispatched
          /\ last' = last
          /\ skipped' = skipped
     /\ pc = "done" =>
          (dispatched' = dispatched /\ skipped' = skipped /\ lineno' = lineno)
    ]_vars

C17_Witness ==
  /\ pc = "done"
  /\ line \in DuplicateLines
  /\ ParseError.kind \in result.wraps
  /\ result.line = lineno
  /\ lineno = 3
  /\ Len(dispatched) = 1
  /\ skipped # {}

\* C18 (as claimed): for every argument list args, the line made of a
\* command name and quoteArgs(args) parses without error to a command
\* whose arguments, fragments joined without expansion, are args.
C18_QuoteRoundTrip ==
  (pc = "parsed" /\ line = <<"c", " ">> \o quoteArgs(qargs)) =>
    /\ result = Nil
    /\ cmd.name = <<"c">>
    /\ joinRawArgs(cmd.rawArgs) = qargs

\* C19 (as claimed): the line 'Don''t communicate by sharing memory.'
\* parses to the single argument Don't communicate by sharing memory.
C19_DontLineParses ==
  (pc = "parsed" /\ line = DontLine) =>
    (result = Nil /\ joinRawArgs(cmd.rawArgs) = <<DontText>>)

\* C19 (amended): inside a quoted region two quote marks make one literal
\* quote and do not close the region: after a command name the quoted
\* text parses to the single argument Don't communicate by sharing
\* memory., whose text is all in quoted fragments; the quoted text alone
\* as a line is a parse error, 'missing command'.
C19_QuoteDoubling ==
  /\ (pc = "parsed" /\ line = CmdDontLine) =>
       /\ result = Nil
       /\ cmd.name = <<"c">>
       /\ joinRawArgs(cmd.rawArgs) = <<DontText>>
       /\ \A k \in DOMAIN cmd.rawArgs[1] :
            cmd.rawArgs[1][k].s # <<>> => cmd.rawArgs[1][k].quoted
  /\ (pc = "parsed" /\ line = DontLine) =>
       (result.kind = "missing command" /\ cmd = NilCmd)

C19_Witness ==
  /\ pc = "parsed"
  /\ line = CmdDontLine
  /\ result = Nil
  /\ Len(cmd.rawArgs) = 1

\* C20: a line with two expected-status markers before the command name,
\* also with conditions between or before them, is a parse error
\* (duplicated token); a command that parse returns has one expected
\* status, the marker of its line or success when there is none.
C20_StatusExclusive ==
  pc = "parsed" =>
    /\ line \in TwoMarkerLines =>
         /\ result.kind = "duplicated '!', '?', '*' or '!*' token"
         /\ cmd = NilCmd
    /\ result = Nil => cmd.want \in Prefixes
    /\ \A w \in Prefixes :
         line = Prefixed(w, <<"c">>) => (result = Nil /\ cmd.want = w)
    /\ \A m \in Markers :
         line = Words(<<<<"[", "t", "]">>, m, <<"c">>>>)
           => (result = Nil /\ cmd.want = m)

C20_Witness ==
  /\ pc = "parsed"
  /\ line = Words(<<failure, <<"[", "t", "]">>, successOrFailure, <<"c">>>>)
  /\ result.kind = "duplicated '!', '?', '*' or '!*' token"

\* C21: a line whose final argument is a lone unquoted & (a comment may
\* follow) parses with background set and without that &; a line whose
\* final argument is the quoted '&' parses with background unset and & as
\* its last argument; an & that is not the final argument is kept.
C21_BackgroundMarker ==
  pc = "parsed" =>
    \A a \in AmpArgs :
      /\ (line = EndedBy(a, <<"&">>)
           \/ line = EndedBy(a, <<"&">>) \o <<" ", "#", "x">>) =>
           /\ result = Nil
           /\ cmd.background
           /\ joinRawArgs(cmd.rawArgs) = a
      /\ line = EndedBy(a, <<"'", "&", "'">>) =>
           /\ result = Nil
           /\ ~cmd.background
           /\ joinRawArgs(cmd.rawArgs) = a \o <<<<"&">>>>
      /\ line = EndedBy(a, <<"x">>) =>
           /\ result = Nil
           /\ ~cmd.background
           /\ joinRawArgs(cmd.rawArgs) = a \o <<<<"x">>>>

C21_Witness ==
  /\ pc = "parsed"
  /\ line = EndedBy(<<<<"&">>, <<"x">>>>, <<"'", "&", "'">>)
  /\ ~cmd.background
  /\ Len(cmd.rawArgs) = 3

\* C23 (as claimed): a command that parse returns has a non-empty name,
\* and no token that stands before the name in the line is among its
\* arguments: when the name is the last token of the line, rawArgs is
\* empty.
C23_NameBeforeArgs ==
  (pc = "parsed" /\ result = Nil /\ cmd # NilCmd) =>
    /\ cmd.name # <<>>
    /\ (line \in NameLastLines /\ cmd.name = <<"c">>) => cmd.rawArgs = <<>>

\* C22: a line with a status marker or guards but no command name is a
\* 'missing command' parse error; a blank line, and a line that holds
\* only a comment after white space, is passed over by Execute: no error,
\* no dispatch, no entry added to sectionCmds, and the loop goes on.
C22_MissingCommandOrBlank ==
  [][/\ (lineno' = lineno + 1 /\ line' \in MissingCmdLines) =>
          /\ pc' = "done"
          /\ result'.kind = "missing command"
          /\ ParseError.kind \in result'.wraps
          /\ dispatched' = dispatched
     /\ (lineno' = lineno + 1 /\ line' \in BlankLines) =>
          /\ pc' = "loop"
          /\ result' = Nil
          /\ dispatched' = dispatched
          /\ last' = last
          /\ sectionCmds' = sectionCmds
          /\ s' = s
    ]_vars

C22_Witness ==
  /\ pc = "done"
  /\ result = Nil
  /\ line \in BlankLines
  /\ lineno = 3
  /\ Len(dispatched) = 2
  /\ ctxErr = Nil

\* a step that is a call of runCommand, recorded in last'
Dispatched == dispatched' # dispatched

\* the command error runCommand makes for the command of last'
CmdErrorNext(kind) == [MkErr(kind) EXCEPT !.cmdErr = TRUE, !.line = last'.line]

\* C24: a dispatch of a line with a trailing & for a command that is not
\* Async returns the command error 'command cannot be run in background',
\* does not call Run and leaves the registry of background tasks as it is.
C24_NotDetachable ==
  [][(/\ Dispatched
      /\ last'.background
      /\ Cmds(last'.name) # NilCap
      /\ ~Cmds(last'.name).Async) =>
       /\ last'.err = CmdErrorNext("command cannot be run in background")
       /\ ~last'.ran
       /\ s'.background = s.background
       /\ (last'.pass = "first" /\ last'.want \notin RetryPrefixes)
            => (pc' = "done" /\ result' = last'.err)]_vars

C24_Witness ==
  /\ pc = "done"
  /\ last.name = <<"c">>
  /\ last.background
  /\ last.want = successOrFailure
  /\ result.kind = "command cannot be run in background"
  /\ result.cmdErr
  /\ Len(s.background) = 1

\* C25: when Run of an Async command returns no WaitFunc and no error the
\* dispatch returns an internal command error; when Run of any command
\* returns a WaitFunc and an error the dispatch returns an internal
\* command error, the WaitFunc is not run and not registered.
C25_HandleOrError ==
  [][Dispatched =>
       /\ (Cmds(last'.name).Async /\ last'.ran
           /\ last'.run = [wait |-> NilWait, runErr |-> Nil]) =>
            /\ last'.err = CmdErrorNext(
                 "internal error: async command returned a nil WaitFunc")
            /\ last'.raw = NoOutcome
       /\ (last'.ran /\ last'.run.wait # NilWait /\ last'.run.runErr # Nil) =>
            /\ last'.err = CmdErrorNext(
                 "internal error: command returned both an error and a WaitFunc")
            /\ last'.raw = NoOutcome
            /\ s'.background = s.background
            /\ s'.stdout = s.stdout
            /\ s'.stderr = s.stderr]_vars

C25_Witness ==
  /\ pc = "done"
  /\ last.name = <<"a">>
  /\ last.background
  /\ last.want = failure
  /\ last.run.wait # NilWait
  /\ last.run.runErr # Nil
  /\ result.kind = "internal error: command returned both an error and a WaitFunc"
  /\ s.background = <<>>

\* C26: when a line with a trailing & runs a command whose Run returns a
\* WaitFunc and no error, the dispatch appends one entry, the command and
\* its WaitFunc, to the end of the registry, empties stdout and stderr,
\* does not run the WaitFunc and returns nil, so that the loop goes on.
C26_DetachedDispatch ==
  [][(/\ Dispatched
      /\ last'.background
      /\ last'.ran
      /\ last'.run.wait # NilWait
      /\ last'.run.runErr = Nil) =>
       /\ s'.background =
            Append(s.background,
                   [command |-> last'.line, wait |-> last'.run.wait])
       /\ s'.stdout = ""
       /\ s'.stderr = ""
       /\ last'.raw = NoOutcome
       /\ last'.err = Nil
       /\ last'.pass = "first" => pc' = "loop"]_vars

C26_Witness ==
  /\ pc = "loop"
  /\ last.background
  /\ last.want = failure
  /\ last.err = Nil
  /\ Len(s.background) = 2
  /\ s.background[2].command = last.line
  /\ s.background[2].wait.err = "err"

\* C30: the registry of background tasks changes only in a call of
\* runCommand: a detached command is appended to it, or the wait command
\* drains it; no other step of Execute, a return after stop included,
\* removes an entry or runs a registered WaitFunc.
C30_NeverReaped ==
  [][s'.background # s.background =>
       /\ Dispatched
       /\ last'.ran
       /\ \/ /\ last'.background
             /\ Len(s'.background) = Len(s.background) + 1
             /\ SubSeq(s'.background, 1, Len(s.background)) = s.background
          \/ Cmds(last'.name).kind = "wait"]_vars

C30_Witness ==
  /\ pc = "done"
  /\ result = Nil
  /\ last.name = <<"s">>
  /\ Len(s.background) = 2
  /\ s.background[1].wait.err = "err"

(***************************************************************************)
(* C27: a request for help short-circuits dispatch.  When the parsing of   *)
(* the flags of a line's arguments reports a help request, the usage of    *)
(* the line's command is the captured stdout and Run is not invoked,       *)
(* whether or not the command declares flags.                              *)
(***************************************************************************)
\* the call of runCommand described by d got as far as fs.Parse, and
\* fs.Parse reported pflag.ErrHelp
HelpRequested(d) ==
  LET impl == Cmds(d.name) IN
  /\ impl # NilCap
  /\ ~(d.background /\ ~impl.Async)
  /\ flagParse(impl.Flags, d.origArgs).err = "help"

C27_HelpShortCircuits ==
  [][(Dispatched /\ HelpRequested(last')) =>
       /\ ~last'.ran
       /\ ListCmds(last'.name) = {last'.name}
       /\ s'.stdout = "usage"]_vars

(***************************************************************************)
(* C28: condition lookup.  A tag without a colon is looked up whole and is *)
(* an error if it is not registered or if the registered condition         *)
(* requires a suffix; a tag prefix:suffix is looked up by the text before  *)
(* its first colon and is an error if that is not registered or if the     *)
(* condition does not accept a suffix.  In each of these cases Eval is not *)
(* called for the tag and the command is not dispatched: Execute returns   *)
(* the error with the line's location.                                     *)
(***************************************************************************)
HasColon(tag) == \E i \in 1..Len(tag) : tag[i] = ":"

FirstColon(tag) ==
  CHOOSE i \in 1..Len(tag) :
    tag[i] = ":" /\ \A j \in 1..(i - 1) : tag[j] # ":"

\* the name under which the registry is asked for the tag
LookupKey(tag) ==
  IF HasColon(tag) THEN SubSeq(tag, 1, FirstColon(tag) - 1) ELSE tag

LookupSuffix(tag) ==
  IF HasColon(tag) THEN SubSeq(tag, FirstColon(tag) + 1, Len(tag)) ELSE <<>>

\* the error the lookup of tag is to give, "nil" for none
LookupError(tag) ==
  IF HasColon(tag)
  THEN IF Conds(LookupKey(tag)) = NilCond THEN "unknown condition prefix"
       ELSE IF ~Conds(LookupKey(tag)).Prefix
       THEN "condition cannot be used with a suffix"
       ELSE "nil"
  ELSE IF Conds(tag) = NilCond THEN "unknown condition"
       ELSE IF Conds(tag).Prefix THEN "condition requires a suffix"
       ELSE "nil"

\* the guard cond is looked up without error, evaluates without error, and
\* is met
GuardMet(cond) ==
  /\ LookupError(cond.tag) = "nil"
  /\ LET r == Eval(Conds(LookupKey(cond.tag)), s, LookupSuffix(cond.tag))
     IN r.err = Nil /\ r.active = cond.want

EvalCalled(c, tag) == \E i \in 1..Len(c.evals) : c.evals[i] = tag

C28_ConditionLookup ==
  [][(pc = "line" /\ ctxErr' = ctxErr) =>
       \A k \in 1..Len(cmd.conds) :
         ( /\ \A j \in 1..(k - 1) : GuardMet(cmd.conds[j])
           /\ LookupError(cmd.conds[k].tag) # "nil" ) =>
           /\ pc' = "done"
           /\ result' =
                [MkErr(LookupError(cmd.conds[k].tag)) EXCEPT !.line = lineno]
           /\ ~EvalCalled(conditionsActive(s, cmd.conds), cmd.conds[k].tag)
           /\ dispatched' = dispatched
           /\ last' = last]_vars

C28_Witness ==
  /\ pc = "done"
  /\ result.kind = "condition requires a suffix"
  /\ cmd.want = successOrFailure
  /\ cmd.conds = <<condition(FALSE, <<"p">>)>>
  /\ result.line = lineno
  /\ lineno = 2
  /\ dispatched = <<1>>

(***************************************************************************)
(* C29: log flushing on exit.  Whenever Execute has returned (at the end   *)
(* of the script, at a stop, with a parse error, an error of a guard, a    *)
(* failure of a command, or a cancellation at the loop check or during the *)
(* backoff) the log buffer of the State is empty; text of the buffer is    *)
(* dropped unwritten in quiet mode alone, and never in a step in which     *)
(* Execute returns an error.                                               *)
(***************************************************************************)
C29_LogFlushedOnExit ==
  [][/\ pc' = "done" => s'.log = 0
     /\ s'.discarded # s.discarded =>
          /\ e.Quiet
          /\ sectionStart
          /\ s.log = 1
          /\ pc' = "done" => result' = Nil]_vars

C29_Witness ==
  /\ pc = "done"
  /\ e.Quiet
  /\ result.cmdErr
  /\ result.kind = "err"
  /\ lineno = 3
  /\ dispatched = <<2, 3>>
  /\ s.log = 0
  /\ s.discarded = 0

(***************************************************************************)
(* C31: the retry counter.  A command dispatched on the first pass of a    *)
(* line sees s.RetryCount = 0.  An episode starts with the counter at 0,   *)
(* each attempt adds one when its wait ends, and the commands of an        *)
(* attempt see that value, so those of the k-th attempt see k.  When the   *)
(* episode ends, by an attempt that succeeded or by the cancellation, the  *)
(* counter is 0.                                                           *)
(***************************************************************************)
InEpisode == pc \in {"backoff", "wait", "replay"}

C31_RetryCounter ==
  [][/\ (Dispatched /\ last'.pass = "first") => last'.retry = 0
     /\ (pc = "line" /\ pc' = "backoff") => s'.RetryCount = 0
     /\ (pc = "backoff" /\ pc' = "wait") => s'.RetryCount = s.RetryCount
     /\ (pc = "wait" /\ pc' = "replay") => s'.RetryCount = s.RetryCount + 1
     /\ (pc = "replay" /\ Dispatched) =>
          /\ last'.pass = "replay"
          /\ last'.retry = s.RetryCount
          /\ last'.retry >= 1
          /\ pc' \in {"replay", "backoff"} => s'.RetryCount = s.RetryCount
     /\ (InEpisode /\ pc' \notin {"backoff", "wait", "replay"}) =>
          s'.RetryCount = 0]_vars

C31_Witness ==
  /\ pc = "loop"
  /\ last.pass = "replay"
  /\ last.retry = 2
  /\ s.RetryCount = 0
  /\ err = Nil
  /\ Len(dispatched) >= 3

(***************************************************************************)
(* C32: serial execution in order.  The first run of a line comes after    *)
(* every dispatch of the lines before it and before any dispatch of the    *)
(* line itself, so outside the replays each line is dispatched at most     *)
(* once and in increasing order.  While the WaitFunc of a command that is  *)
(* not detached has not been called, Execute does nothing but call it: no  *)
(* line is read, no guard evaluated, no command dispatched and no other    *)
(* WaitFunc called.                                                        *)
(***************************************************************************)
\* Run returned a WaitFunc the engine is to call, and has not called yet
Unresolved(d) == HandleReturned(d) /\ d.raw = NoOutcome

C32_SerialInOrder ==
  [][/\ (Dispatched /\ last'.pass = "first") =>
          /\ last'.line = lineno
          /\ \A i \in 1..Len(dispatched) : dispatched[i] < lineno
     /\ Unresolved(last') => pc' = "resolve"
     /\ (Unresolved(last) /\ ctxErr' = ctxErr) =>
          /\ ~Unresolved(last')
          /\ last'.line = last.line
          /\ last'.raw = waitErrOf(cmd, last.run.wait)
          /\ s'.stdout = last.run.wait.stdout
          /\ s'.stderr = last.run.wait.stderr
          /\ s'.background = s.background
          /\ dispatched' = dispatched
          /\ skipped' = skipped
          /\ lineno' = lineno]_vars

C32_Witness ==
  /\ pc = "loop"
  /\ lineno = 3
  /\ dispatched = <<1, 2, 3>>
  /\ last.pass = "first"
  /\ HandleReturned(last)
  /\ last.raw = Nil
  /\ s.stdout = "o"
  /\ Len(s.background) = 1

(***************************************************************************)
(* C33 (as claimed): between two lines the replay list of the section      *)
(* holds exactly the commands dispatched in the section so far, in source  *)
(* order: every command it holds has been dispatched, the line dispatched  *)
(* last on a first pass is its last entry, its lines increase, and it is   *)
(* empty after a section comment.                                          *)
(***************************************************************************)
WasDispatched(l) == \E i \in 1..Len(dispatched) : dispatched[i] = l

C33_ReplayBuffer ==
  pc = "loop" =>
    /\ \A i \in 1..Len(sectionCmds) : WasDispatched(sectionCmds[i].line)
    /\ \A i, j \in 1..Len(sectionCmds) :
         i < j => sectionCmds[i].line < sectionCmds[j].line
    /\ (last.pass = "first" /\ last.line = lineno) =>
         /\ sectionCmds # <<>>
         /\ sectionCmds[Len(sectionCmds)].line = lineno
    /\ HasPrefix(line, "#") => sectionCmds = <<>>

(***************************************************************************)
(* C34: retry liveness.  If from some attempt on every replayed command    *)
(* returns without error, a retry episode ends: Execute leaves the retry   *)
(* loop after an attempt that ran the whole section, with the counter at 0 *)
(* and at the top of the line loop, unless the context was cancelled (it   *)
(* then returns) or the attempts the model allows ran out with the last    *)
(* one failed.                                                             *)
(***************************************************************************)
ReplaySucceeds == pc = "replay" => err' = Nil

EpisodeOver ==
  \/ pc = "loop" /\ s.RetryCount = 0 /\ err = Nil
  \/ pc = "done" /\ ctxErr # Nil
  \/ pc = "wait" /\ s.RetryCount = MaxRetries /\ err # Nil

C34_RetryLiveness ==
  <>[][ReplaySucceeds]_vars => (InEpisode ~> EpisodeOver)

C34_Witness ==
  /\ pc = "loop"
  /\ last.pass = "replay"
  /\ last.retry = 2
  /\ Len(sectionCmds) = 2
  /\ attempt = <<[line |-> 1, failed |-> FALSE], [line |-> 2, failed |-> FALSE]>>
  /\ s.RetryCount = 0
  /\ ctxErr = Nil

(***************************************************************************)
(* C35: inside a retry episode the error of a replayed command, whatever   *)
(* the line's prefix and also for an unknown command, does not make        *)
(* Execute return: it ends the attempt, and the next attempt follows the   *)
(* next backoff.  Execute leaves the episode through an attempt that ran   *)
(* the whole section without error, or with the error of the cancelled     *)
(* context at the select.                                                  *)
(***************************************************************************)
C35_EpisodeExits ==
  [][/\ (pc = "replay" /\ Dispatched /\ last'.err # Nil) =>
          /\ pc' = "backoff"
          /\ result' = result
          /\ err' = last'.err
     /\ pc = "backoff" => pc' \in {"backoff", "wait"}
     /\ (pc = "wait" /\ ctxErr' = ctxErr) =>
          IF ctxErr = Nil
          THEN pc' = "replay" /\ ri' = 1 /\ attempt' = <<>>
          ELSE pc' = "done" /\ result' = lineErr(lineno, ctxErr)
     /\ (InEpisode /\ pc' = "loop") =>
          /\ pc = "replay"
          /\ err' = Nil
          /\ Len(attempt') = Len(sectionCmds)
          /\ \A i \in 1..Len(attempt') :
               attempt'[i].line = sectionCmds[i].line /\ ~attempt'[i].failed
     /\ (InEpisode /\ pc' = "done") => (pc = "wait" /\ ctxErr # Nil)]_vars

C35_Witness ==
  /\ pc = "backoff"
  /\ s.RetryCount = 2
  /\ Len(sectionCmds) = 2
  /\ sectionCmds[1].want = success
  /\ attempt = <<[line |-> 2, failed |-> TRUE]>>
  /\ last.err.cmdErr
  /\ result = Nil

(***************************************************************************)
(* C36: the arguments of a line are expanded on its first pass and not     *)
(* again.  The first run of a line hands runCommand the expansion of the   *)
(* line's raw arguments under the State of that moment; a replay hands it  *)
(* the arguments the entry of the replay list holds, and no step changes   *)
(* the arguments of an entry that has been dispatched, whatever happens to *)
(* the variables of the State in between.                                  *)
(***************************************************************************)
ExpandedNow(c) ==
  expandArgs(s, c.rawArgs,
             IF Cmds(c.name) # NilCap THEN Cmds(c.name).RegexpArgs ELSE {})

C36_ExpandOnce ==
  [][/\ (Dispatched /\ last'.pass = "first") =>
          /\ last'.origArgs = ExpandedNow(cmd)
          /\ sectionCmds' # <<>> =>
               sectionCmds'[Len(sectionCmds')].origArgs = last'.origArgs
     /\ (Dispatched /\ last'.pass = "replay") =>
          /\ last'.origArgs = sectionCmds[ri].origArgs
          /\ last'.args = sectionCmds[ri].args
     /\ \A i \in 1..Len(sectionCmds) :
          (i <= Len(sectionCmds') /\ WasDispatched(sectionCmds[i].line)) =>
            /\ sectionCmds'[i].origArgs = sectionCmds[i].origArgs
            /\ sectionCmds'[i].args = sectionCmds[i].args]_vars

C36_Witness ==
  /\ last.pass = "replay"
  /\ last.line = 1
  /\ last.origArgs = <<<<"x">>>>
  /\ last.args = <<<<"x">>>>
  /\ s.env = <<"y">>
  /\ Len(sectionCmds) = 3

(***************************************************************************)
(* C37: the expected status of a detached line is not reconciled when the  *)
(* line is dispatched.  A line `! cmd &` or `!* cmd &` whose Run returns a *)
(* WaitFunc alone is dispatched without error: checkStatus is not called,  *)
(* Execute neither returns nor starts a retry, and every dispatch of the   *)
(* line, each replay included, adds one task for it to the registry.       *)
(***************************************************************************)
C37_DetachedNotReconciled ==
  [][(/\ Dispatched
      /\ last'.background
      /\ last'.want \in {failure, failureRetryOnSuccess}
      /\ last'.run.wait # NilWait
      /\ last'.run.runErr = Nil) =>
       /\ last'.err = Nil
       /\ last'.raw = NoOutcome
       /\ Len(s'.background) = Len(s.background) + 1
       /\ s'.background[Len(s'.background)].command = last'.line
       /\ result' = result
       /\ pc = "line" => pc' = "loop"
       /\ pc = "replay" => (pc' \in {"replay", "loop"} /\ err' = Nil)]_vars

C37_Witness ==
  /\ pc = "backoff"
  /\ s.RetryCount = 2
  /\ Len(sectionCmds) = 2
  /\ sectionCmds[1].want = failure
  /\ sectionCmds[1].background
  /\ Len(s.background) = 3
  /\ \A i \in 1..3 : s.background[i].command = 1

(***************************************************************************)
(* C38: a dispatch that is rejected before Run is called (the command is   *)
(* not registered, a command that cannot be detached is asked to run in    *)
(* the background, a flag is not declared) and a dispatch whose Run        *)
(* returns no WaitFunc, with or without an error, leave the captured       *)
(* stdout and stderr of the State as they were: runCommand writes them     *)
(* only for a help request, for a detached command and from the result of  *)
(* a WaitFunc.  The wait command is the one capability whose Run itself    *)
(* writes the captured output, so its dispatches are left aside.           *)
(***************************************************************************)
RejectedBeforeRun(d) == ~d.ran /\ d.err # Nil

RunWritesOutput(name) == name \in CmdNames /\ Cmds(name).kind = "wait"

GuardEval(cond) ==
  Eval(Conds(LookupKey(cond.tag)), s, LookupSuffix(cond.tag))

GuardUnmet(cond) ==
  /\ LookupError(cond.tag) = "nil"
  /\ GuardEval(cond).err = Nil
  /\ GuardEval(cond).active # cond.want

GuardBad(cond) ==
  \/ LookupError(cond.tag) # "nil"
  \/ GuardEval(cond).err # Nil

C39_GuardsStopAtFirstUnmet ==
  [][(pc = "line" /\ ctxErr' = ctxErr) =>
       \A k \in 1..Len(cmd.conds) :
         (\A j \in 1..(k - 1) : GuardMet(cmd.conds[j])) =>
           /\ GuardUnmet(cmd.conds[k]) =>
                /\ pc' = "loop"
                /\ result' = result
                /\ skipped' = skipped \cup {cmd.line}
                /\ dispatched' = dispatched
                /\ conditionsActive(s, cmd.conds).at = k
                /\ Len(conditionsActive(s, cmd.conds).evals) = k
           /\ GuardBad(cmd.conds[k]) =>
                /\ pc' = "done"
                /\ result' # Nil
                /\ result'.line = lineno
                /\ skipped' = skipped
                /\ dispatched' = dispatched]_vars

C39_Witness ==
  /\ pc = "loop"
  /\ cmd.conds = <<condition(TRUE, <<"f">>), condition(TRUE, <<"u">>)>>
  /\ cmd.line \in skipped
  /\ lineno = 1
  /\ result = Nil
  /\ dispatched = <<>>

(***************************************************************************)
(* C40: ExecuteLine returns what runCommand returned.  A call that         *)
(* dispatches a command does so once and is back at the host, with the     *)
(* error of the dispatch as its result, without a backoff and without a    *)
(* change of the retry counter; when Run returned the stop signal the      *)
(* result is that signal, not nil; and when a line with the prefix `*` or  *)
(* `!*` does not meet its expectation the result is the error of the       *)
(* command.                                                                *)
(***************************************************************************)
ExpectationUnmet(d) ==
  \/ d.want = successRetryOnFailure /\ d.raw \notin {Nil, NoOutcome}
  \/ d.want = failureRetryOnSuccess /\ d.raw = Nil

C40_ExecuteLineReturns ==
  [][Dispatched =>
       /\ dispatched' = Append(dispatched, lineno')
       /\ pc' = "host"
       /\ result' = last'.err
       /\ backoff' = backoff
       /\ s'.RetryCount = s.RetryCount
       /\ sectionCmds' = sectionCmds
       /\ (last'.ran /\ IsStop(last'.run.runErr)) =>
            (result' # Nil /\ IsStop(result'))
       /\ ExpectationUnmet(last') =>
            (result' # Nil /\ result'.cmdErr /\ ~IsStop(result'))]_vars

C40_Witness ==
  /\ pc = "host"
  /\ lineno = 2
  /\ dispatched = <<1, 2>>
  /\ line = <<"s">>
  /\ last.name = <<"s">>
  /\ IsStop(result)
====
